---- MODULE Spec2Model ----
(***************************************************************************)
(* A model of the core of the ollie voice assistant:                       *)
(*   - Orchestrator (src/ollie/core/orchestrator.py): register, process    *)
(*   - Skill / SkillMatch / SkillResult (src/ollie/core/skill.py)          *)
(*   - TimerSkill (src/ollie/skills/timer.py): set, list, cancel and the   *)
(*     countdown tasks                                                     *)
(*   - OllieAssistant (src/ollie/main.py): the voice loop run, speak,      *)
(*     listen, process_query, the timer callback and shutdown              *)
(*   - OpenWakeWordDetector (src/ollie/voice/wakeword_oww.py): the audio   *)
(*     capture process, pause, resume and flush_audio_buffer               *)
(* The program runs on one asyncio event loop: code between two awaits     *)
(* runs without interleaving, so each action below is one such stretch.    *)
(***************************************************************************)
EXTENDS Integers, Sequences, FiniteSets, TLC

(***************************************************************************)
(* Bounds of the model.                                                    *)
(***************************************************************************)
\* number of skills that can be registered
MaxSkills == 3
\* longest query text, in characters
MaxQueryLen == 2
\* number of timers ever set
MaxTimers == 2
\* longest timer duration, in seconds
MaxDuration == 2
\* number of timers set through the voice loop
MaxCoordTimers == 1
\* number of frames the pipe of the capture process holds
MaxPipe == 2
\* listen(timeout=6.0) (main.py:326), in ticks of the capture clock
timeout == 4
\* listen: silence_threshold = 0.8 (main.py:191), in ticks
silence_threshold == 1
\* listen: min_speech_chunks = 15 (main.py:192), in chunks
min_speech_chunks == 1

(***************************************************************************)
(* The volume thresholds of listen (main.py:210, 213).                     *)
(***************************************************************************)
SpeechLevel == 500
SilenceLevel == 300

(***************************************************************************)
(* SkillConfidence (skill.py:9-16): the values of the enum.                *)
(***************************************************************************)
NO_MATCH == 0
LOW == 1
MEDIUM == 2
HIGH == 3
EXACT == 4
SkillConfidence == {NO_MATCH, LOW, MEDIUM, HIGH, EXACT}

\* Python's None, where an object is expected
None == [none |-> TRUE]

\* the names of the skills the assistant registers, in its order
\* (main.py:86-98)
SkillNames ==
    <<"timer", "jokes", "weather", "travel", "conversions", "flights",
      "recipes", "math", "sonos", "claude", "time", "aircraft", "sports">>

\* the place of the general-question skill in the registration order
ClaudeIndex == CHOOSE i \in 1..Len(SkillNames) : SkillNames[i] = "claude"

\* the part of the registry around the general-question skill: MaxSkills
\* skills in the order of setup, the skill registered after it being the last
SetupAroundClaude ==
    SubSeq(SkillNames, ClaudeIndex + 2 - MaxSkills, ClaudeIndex + 1)

\* the skill objects that can be registered, each known by its name
SkillObjects ==
    {SkillNames[i] : i \in 1..MaxSkills}
        \cup {SetupAroundClaude[i] : i \in 1..Len(SetupAroundClaude)}

\* a result text that names no skill
NoSkill == "-"

\* the characters of a query: a whitespace character and a letter
Chars == {" ", "a"}
Whitespace == {" "}

\* every text of at most MaxQueryLen characters
Queries == UNION {[1..n -> Chars] : n \in 0..MaxQueryLen}

\* the entities a match can extract (SkillMatch.extracted); {} is "empty"
EmptyExtracted == "{}"
ExtractedValues == {EmptyExtracted, "x", "y"}

(***************************************************************************)
(* str.strip(): drop the leading and the trailing whitespace.              *)
(***************************************************************************)
RECURSIVE lstrip(_)
lstrip(s) ==
    IF Len(s) > 0 /\ Head(s) \in Whitespace THEN lstrip(Tail(s)) ELSE s

RECURSIVE rstrip(_)
rstrip(s) ==
    IF Len(s) > 0 /\ s[Len(s)] \in Whitespace
    THEN rstrip(SubSeq(s, 1, Len(s) - 1))
    ELSE s

\* as strip, but the text is left as it is
strip_nothing(s) == s

strip(s) == rstrip(lstrip(s))

(***************************************************************************)
(* SkillMatch(skill, confidence, extracted) and the helpers Skill._match   *)
(* and Skill._no_match, which fill in skill = self.                        *)
(***************************************************************************)
SkillMatch(skill, confidence, extracted) ==
    [skill |-> skill, confidence |-> confidence, extracted |-> extracted]

_no_match(self) == SkillMatch(self, NO_MATCH, EmptyExtracted)

_match(self, confidence, extracted) == SkillMatch(self, confidence, extracted)

\* what a skill's match can return: _no_match(), or _match(confidence, ...)
MatchReturns(self) ==
    {_no_match(self)} \cup
    {_match(self, c, e) : c \in SkillConfidence \ {NO_MATCH},
                          e \in ExtractedValues \ {EmptyExtracted}}

\* as ClaudeSkill_match, but matching no query
ClaudeSkill_match_never(self, q) == _no_match(self)

(***************************************************************************)
(* ClaudeSkill.match (claude.py:42-51): no match for a query that is empty *)
(* once stripped, LOW with no entities for every other query.              *)
(***************************************************************************)
ClaudeSkill_match(self, q) ==
    IF Len(strip(q)) = 0 THEN _no_match(self)
    ELSE _match(self, LOW, EmptyExtracted)

\* what the match of a registered skill can return on the query q
skill_match(self, q) ==
    IF self = "claude" THEN {ClaudeSkill_match(self, q)}
    ELSE MatchReturns(self)

(***************************************************************************)
(* SkillResult, with the text of response abstracted to its kind.          *)
(***************************************************************************)
SkillResult(success, response, by) ==
    [success |-> success, response |-> response, skill |-> by]

\* SkillResult.error("I didn't catch that. ...")
DidntCatch == SkillResult(FALSE, "didnt_catch_that", NoSkill)

\* SkillResult.error("... {skill.name} encountered an error.")
TroubleWith(skill) == SkillResult(FALSE, "trouble_with", skill)

\* Orchestrator._fallback_response
_fallback_response(q) == SkillResult(TRUE, "not_sure_how_to_help", NoSkill)

VARIABLES
    \* ---- Orchestrator ----
    skills,       \* Orchestrator.skills: the registered skills, in order
    pc,           \* where the process call is
    query,        \* process: the local query, after strip()
    match_task,   \* the match task gather runs for each registered skill
    matches,      \* process: the list gather returned
    best_match,   \* process: the chosen SkillMatch, or None
    result,       \* what process returned, or None
    \* ---- observations of the calls made during the current process call ----
    matchCalls,   \* per skill, the queries its match was invoked with
    matchOut,     \* per skill, the SkillMatch its match returned, or None
    execCalls,    \* the execute calls made: <<[skill, query, extracted]>>
    execOutcome,  \* how the execute call ended: "none", "returned", "raised"
    query_arg,    \* the query process was called with, before strip()
    done_order,   \* the indexes of the match tasks in the order in which
                  \* they returned, when that order is being recorded
    \* ---- JokesSkill ----
    last_joke_index,  \* JokesSkill.last_joke_index, counted from 1, or NoIndex
    told,             \* the jokes the last two executions returned
    \* ---- WakeWordDetector (transcription-based) ----
    whisper_model,         \* TRUE when self.model is loaded, FALSE when None
    whisper_paused,        \* WakeWordDetector._paused
    _audio_buffer,         \* the rolling buffer, one level per sample
    _buffer_pos,           \* the next write position, counted from 0
    _samples_since_check,  \* the samples added since the last wake check
    while_paused,          \* per sample of the rolling buffer, TRUE when it
                           \* was written while paused (an observation)
    checked,               \* what the last call on the detector did
    paused_frames,         \* "passed" once a frame was passed while paused,
                           \* "resumed" once resume was called after that
    \* ---- TimerSkill ----
    timers,             \* TimerSkill.timers: the active map, in insertion order
    next_id,            \* TimerSkill.next_id
    on_timer_complete,  \* TRUE when a completion callback was given
    countdown,          \* the countdown tasks ever created, in creation order
    \* ---- observations of the timer subsystem ----
    timer_result,       \* what TimerSkill.execute returned, in the state
                        \* right after the call (NoTimerResult otherwise)
    completed,          \* per countdown task, the callback invocations made
    cancelled           \* the countdown tasks counted in a cancel result

routerVars == <<skills, pc, query, match_task, matches, best_match, result,
                matchCalls, matchOut, execCalls, execOutcome, query_arg,
                done_order, last_joke_index, told, whisper_model,
                whisper_paused, _audio_buffer, _buffer_pos,
                _samples_since_check, while_paused, checked,
                paused_frames>>

jokeVars == <<last_joke_index, told>>

whisperVars == <<whisper_model, whisper_paused, _audio_buffer, _buffer_pos,
                 _samples_since_check, while_paused, checked, paused_frames>>

timerVars == <<timers, next_id, on_timer_complete, countdown, timer_result,
               completed, cancelled>>

VARIABLES
    \* ---- OllieAssistant ----
    tts,              \* TRUE when self.tts is a synthesizer, FALSE when None
    _running,         \* OllieAssistant._running
    run_pc,           \* where the main flow (run) is
    speak_ret,        \* speak: where the running speak call returns to
    announce,         \* the tts.speak tasks created by _on_timer
    \* ---- the locals of listen ----
    listen_now,       \* time.time() - start_time
    audio_chunks,     \* len(audio_chunks), counted up to MaxChunks
    silence_start,    \* silence_start - start_time, or None
    speech_detected,  \* speech_detected
    interrupted,      \* a frame at or above the low threshold came after the
                      \* recorded silence start (an observation)
    \* ---- OpenWakeWordDetector ----
    model,            \* TRUE when wakeword.model is loaded, FALSE when None
    _paused,          \* OpenWakeWordDetector._paused
    wakeword_running, \* OpenWakeWordDetector._running
    _arecord_proc,    \* "None", or the state of the arecord process
    pipe,             \* the frames arecord wrote that are still in the pipe
    stdout_buffer,    \* the frames held by the buffer of _arecord_proc.stdout
    arecord_procs,    \* the number of arecord processes that are running
    \* ---- observations of the coordinator ----
    speak_log,        \* the steps the current speak call has performed
    spoken,           \* the texts speak was called with by process_query
    pq_locals,        \* process_query: result and speak_text, once routed
    called,           \* the calls a caller of the detector made, in pairs
    fed,              \* the frame handed to wake detection or to a capture
                      \* window by the last step, if any
    wake,             \* what the last wake check of the loop body did: a frame
                      \* was read, process_audio was called with it, the calls
                      \* of on_wake it made, and what it returned
    listen_exit,      \* how the capture loop of listen ended
    failure,          \* the failure met since the loop last waited for wake
    stop_from         \* where the main flow was when a stop was requested

\* the coordinator but for the announcements the timer callback creates
flowVars == <<tts, _running, run_pc, speak_ret, listen_now, audio_chunks,
              silence_start, speech_detected, interrupted, model, _paused,
              wakeword_running, _arecord_proc, pipe, stdout_buffer,
              arecord_procs, speak_log, spoken, pq_locals, called, fed,
              wake, listen_exit, failure, stop_from>>

coordVars == <<flowVars, announce>>

vars == <<routerVars, timerVars, coordVars>>

Registered == {skills[i] : i \in 1..Len(skills)}

(***************************************************************************)
(*                               JokesSkill                                *)
(***************************************************************************)
\* JokesSkill.JOKES (jokes.py:32-104): the setup of each joke, in order
JOKES ==
    <<"Why don't scientists trust atoms?",
      "What do you call a fake noodle?",
      "Why did the scarecrow win an award?",
      "I told my wife she was drawing her eyebrows too high.",
      "What do you call a bear with no teeth?",
      "Why don't eggs tell jokes?",
      "What did the ocean say to the beach?",
      "Why did the bicycle fall over?",
      "What do you call a fish without eyes?",
      "I'm reading a book about anti-gravity.",
      "Why did the math book look so sad?",
      "What do you call a sleeping dinosaur?",
      "I used to hate facial hair...",
      "What did the left eye say to the right eye?",
      "Why can't you give Elsa a balloon?",
      "What do you call a factory that makes okay products?",
      "I'm on a seafood diet.",
      "Why did the golfer bring two pairs of pants?",
      "What do you call a dog that does magic tricks?",
      "Why did the coffee file a police report?">>

\* last_joke_index is None: no joke was told yet
NoIndex == 0

\* JokesSkill.__init__
JokesSkill_init ==
    /\ last_joke_index = NoIndex
    /\ told = <<>>

\* as available_indices, but with the last joke told left in
available_indices_all == 1..Len(JOKES)

\* the indices random.choice draws from (jokes.py:141-143, 160-162)
available_indices == {i \in 1..Len(JOKES) : i # last_joke_index}

\* JokesSkill._get_random_joke, drawing joke_index
_get_random_joke(joke_index) ==
    /\ joke_index \in available_indices
    /\ last_joke_index' = joke_index
    /\ told' = IF Len(told) = 2 THEN <<told[2], JOKES[joke_index]>>
               ELSE Append(told, JOKES[joke_index])

(***************************************************************************)
(* JokesSkill.execute (jokes.py:131-156): with family_friendly_only the    *)
(* joke of _get_random_joke follows a fixed sentence; otherwise the same   *)
(* draw and the same update of last_joke_index are made in place.          *)
(***************************************************************************)
JokesSkill_execute(family_friendly_only, joke_index) ==
    /\ IF family_friendly_only
       THEN _get_random_joke(joke_index)
       ELSE /\ joke_index \in available_indices
            /\ last_joke_index' = joke_index
            /\ told' = IF Len(told) = 2 THEN <<told[2], JOKES[joke_index]>>
                       ELSE Append(told, JOKES[joke_index])
    /\ UNCHANGED <<skills, pc, query, match_task, matches, best_match, result,
                   matchCalls, matchOut, execCalls>>
    /\ UNCHANGED <<execOutcome, query_arg, done_order, whisperVars,
                   timerVars, coordVars>>

(***************************************************************************)
(*          WakeWordDetector, the transcription-based wake detector        *)
(***************************************************************************)
\* WakeWordDetector._buffer_size, in samples (wakeword.py:40 has 32000)
_buffer_size == 4

\* WakeWordDetector._check_interval_samples (wakeword.py:44): check_interval
\* is half of buffer_duration
_check_interval_samples == _buffer_size \div 2

\* the samples counted since the last check, while paused, at most
MaxSinceCheck == 2 * _buffer_size

\* the frames process_audio is called with: a sample is TRUE when its level
\* is 0.01 or more in absolute value (wakeword.py:188)
AudioChunks ==
    {[i \in 1..n |-> loud] : n \in 0.._buffer_size, loud \in BOOLEAN}

\* np.zeros(self._buffer_size), and the buffer after fill(0)
Zeros == [i \in 1.._buffer_size |-> FALSE]

\* the rest of the model, which the detector leaves alone
detectorFrame == <<skills, pc, query, match_task, matches, best_match,
                   result, matchCalls, matchOut, execCalls, execOutcome,
                   query_arg, done_order, jokeVars, timerVars, coordVars>>

\* no call was made on the detector yet
NoCall == [op |-> "none", paused |-> FALSE, check |-> FALSE,
           heard_paused |-> FALSE, transcribed |-> FALSE, on_wake |-> 0,
           detected |-> FALSE]

\* WakeWordDetector.__init__
WakeWordDetector_init ==
    /\ whisper_model = FALSE
    /\ whisper_paused = FALSE
    /\ _audio_buffer = Zeros
    /\ _buffer_pos = 0
    /\ _samples_since_check = 0
    /\ while_paused = Zeros
    /\ checked = NoCall
    /\ paused_frames = "none"

\* WakeWordDetector.load: the model is loaded, unless the import fails
WakeWordDetector_load(imported) ==
    /\ ~whisper_model
    /\ whisper_model' = imported
    /\ checked' = [NoCall EXCEPT !.op = "load", !.paused = whisper_paused]
    /\ UNCHANGED <<whisper_paused, _audio_buffer, _buffer_pos,
                   _samples_since_check, while_paused, paused_frames>>
    /\ UNCHANGED detectorFrame

(***************************************************************************)
(* The rolling buffer after _add_to_buffer wrote audio_float at position   *)
(* pos, counted from 0 (wakeword.py:112-127): a chunk as long as the       *)
(* buffer or longer replaces it by its end, a shorter one is written in    *)
(* place, wrapping around the end of the buffer.                           *)
(***************************************************************************)
Written(buffer, pos, audio_float) ==
    LET chunk_len == Len(audio_float)
        end_pos == pos + chunk_len
        first_part == _buffer_size - pos
    IN IF chunk_len >= _buffer_size
       THEN SubSeq(audio_float, chunk_len - _buffer_size + 1, chunk_len)
       ELSE IF end_pos <= _buffer_size
       THEN [i \in 1.._buffer_size |->
                IF pos < i /\ i <= end_pos THEN audio_float[i - pos]
                ELSE buffer[i]]
       ELSE [i \in 1.._buffer_size |->
                IF pos < i THEN audio_float[i - pos]
                ELSE IF i <= chunk_len - first_part
                THEN audio_float[first_part + i]
                ELSE buffer[i]]

\* WakeWordDetector._add_to_buffer, but for the count of samples, which
\* process_audio below carries on to _should_check
_add_to_buffer(audio_chunk) ==
    /\ _audio_buffer' = Written(_audio_buffer, _buffer_pos, audio_chunk)
    /\ while_paused' =
           Written(while_paused, _buffer_pos,
                   [i \in 1..Len(audio_chunk) |-> whisper_paused])
    /\ _buffer_pos' = IF Len(audio_chunk) >= _buffer_size THEN 0
                      ELSE (_buffer_pos + Len(audio_chunk)) % _buffer_size

\* as _should_check, but without the test of _paused
_should_check_when_paused(samples) ==
    IF samples >= _check_interval_samples
    THEN [check |-> TRUE, samples |-> 0]
    ELSE [check |-> FALSE, samples |-> samples]

\* WakeWordDetector._should_check with _samples_since_check = samples: what
\* it returns and what it leaves in _samples_since_check
_should_check(samples) ==
    IF whisper_paused THEN [check |-> FALSE, samples |-> samples]
    ELSE IF samples >= _check_interval_samples
    THEN [check |-> TRUE, samples |-> 0]
    ELSE [check |-> FALSE, samples |-> samples]

\* _check_wake_word: the circular buffer in the order of arrival
\* (wakeword.py:180-186)
Ordered(buffer, pos) ==
    IF pos = 0 THEN buffer
    ELSE SubSeq(buffer, pos + 1, _buffer_size) \o SubSeq(buffer, 1, pos)

(***************************************************************************)
(* WakeWordDetector._check_wake_word on the buffer given: silence is not   *)
(* transcribed; heard is TRUE when the text transcribed holds a variant of *)
(* the wake word, FALSE when it is empty, holds none, or transcribe        *)
(* raised.  on_wake is called once per detection.                          *)
(***************************************************************************)
_check_wake_word(buffer, tags, pos, heard) ==
    LET audio == Ordered(buffer, pos)
        silent == \A i \in 1..Len(audio) : ~audio[i]
    IN [check |-> TRUE,
        heard_paused |-> \E i \in 1.._buffer_size : Ordered(tags, pos)[i],
        transcribed |-> ~silent,
        on_wake |-> IF ~silent /\ heard THEN 1 ELSE 0,
        detected |-> ~silent /\ heard]

\* WakeWordDetector.process_audio
WakeWordDetector_process_audio(audio_chunk, heard) ==
    /\ _samples_since_check + Len(audio_chunk) <= MaxSinceCheck
    /\ IF ~whisper_model
       THEN /\ heard = FALSE
            /\ checked' = [NoCall EXCEPT !.op = "process_audio",
                                         !.paused = whisper_paused]
            /\ UNCHANGED <<_audio_buffer, while_paused, _buffer_pos,
                           _samples_since_check, paused_frames>>
       ELSE LET should ==
                    _should_check(_samples_since_check + Len(audio_chunk))
                made == _check_wake_word(_audio_buffer', while_paused',
                                         _buffer_pos', heard)
            IN /\ _add_to_buffer(audio_chunk)
               /\ _samples_since_check' = should.samples
               /\ paused_frames' =
                      IF whisper_paused /\ audio_chunk # <<>>
                         /\ paused_frames = "none"
                      THEN "passed" ELSE paused_frames
               /\ IF should.check
                  THEN /\ heard => made.transcribed
                       /\ checked' = [op |-> "process_audio",
                                      paused |-> whisper_paused,
                                      check |-> TRUE,
                                      heard_paused |-> made.heard_paused,
                                      transcribed |-> made.transcribed,
                                      on_wake |-> made.on_wake,
                                      detected |-> made.detected]
                  ELSE /\ heard = FALSE
                       /\ checked' = [NoCall EXCEPT !.op = "process_audio",
                                                    !.paused = whisper_paused]
    /\ UNCHANGED <<whisper_model, whisper_paused>>
    /\ UNCHANGED detectorFrame

\* WakeWordDetector.pause
WakeWordDetector_pause ==
    /\ whisper_paused' = TRUE
    /\ _audio_buffer' = Zeros
    /\ _buffer_pos' = 0
    /\ _samples_since_check' = 0
    /\ while_paused' = Zeros
    /\ checked' = [NoCall EXCEPT !.op = "pause", !.paused = whisper_paused]
    /\ UNCHANGED <<whisper_model, paused_frames>>
    /\ UNCHANGED detectorFrame

\* as WakeWordDetector.resume, but the buffer and the count are kept
WakeWordDetector_resume_keeps_buffer ==
    /\ whisper_paused' = FALSE
    /\ checked' = [NoCall EXCEPT !.op = "resume", !.paused = whisper_paused]
    /\ paused_frames' = IF paused_frames = "passed" THEN "resumed"
                        ELSE paused_frames
    /\ UNCHANGED <<whisper_model, _audio_buffer, _buffer_pos,
                   _samples_since_check, while_paused>>
    /\ UNCHANGED detectorFrame

\* WakeWordDetector.resume
WakeWordDetector_resume ==
    /\ _audio_buffer' = Zeros
    /\ _buffer_pos' = 0
    /\ _samples_since_check' = 0
    /\ whisper_paused' = FALSE
    /\ while_paused' = Zeros
    /\ checked' = [NoCall EXCEPT !.op = "resume", !.paused = whisper_paused]
    /\ paused_frames' = IF paused_frames = "passed" THEN "resumed"
                        ELSE paused_frames
    /\ UNCHANGED whisper_model
    /\ UNCHANGED detectorFrame

\* WakeWordDetector.reset
WakeWordDetector_reset ==
    /\ _audio_buffer' = Zeros
    /\ _buffer_pos' = 0
    /\ _samples_since_check' = 0
    /\ while_paused' = Zeros
    /\ checked' = [NoCall EXCEPT !.op = "reset", !.paused = whisper_paused]
    /\ UNCHANGED <<whisper_model, whisper_paused, paused_frames>>
    /\ UNCHANGED detectorFrame

\* the order in which the match tasks return is not being recorded
NotRecorded == <<0>>

\* the order of return after one more match task, of index i, has returned
Returned(order, i) == IF order = NotRecorded THEN order ELSE Append(order, i)

(***************************************************************************)
(* Orchestrator.__init__                                                   *)
(***************************************************************************)
RouterWith(registry) ==
    /\ skills = registry
    /\ pc = "idle"
    /\ query = <<>>
    /\ match_task = <<>>
    /\ matches = <<>>
    /\ best_match = None
    /\ result = None
    /\ matchCalls = [s \in SkillObjects |-> <<>>]
    /\ matchOut = [s \in SkillObjects |-> None]
    /\ execCalls = <<>>
    /\ execOutcome = "none"
    /\ query_arg = <<>>
    /\ JokesSkill_init
    /\ WakeWordDetector_init

RouterNew == RouterWith(<<>>)

\* a new router, the order of return of its match tasks not recorded
RouterInit == RouterNew /\ done_order = NotRecorded

\* no process call is running
NotProcessing == pc \in {"idle", "returned", "raised"}

(***************************************************************************)
(* Orchestrator.register(skill)                                            *)
(***************************************************************************)
register(skill) ==
    /\ NotProcessing
    /\ skill \notin Registered
    /\ skills' = Append(skills, skill)
    /\ UNCHANGED <<pc, query, match_task, matches, best_match, result,
                   matchCalls, matchOut, execCalls>>
    /\ UNCHANGED <<execOutcome, query_arg, done_order, jokeVars, whisperVars,
                   timerVars, coordVars>>

(***************************************************************************)
(* OllieAssistant.setup registers the skills one after the other, in the   *)
(* order of SkillNames.                                                    *)
(***************************************************************************)
setup_register ==
    /\ Len(skills) < MaxSkills
    /\ register(SkillNames[Len(skills) + 1])

(***************************************************************************)
(* Orchestrator.process(query), up to the await of asyncio.gather: strip,  *)
(* the empty-query return, and one match task per registered skill.        *)
(***************************************************************************)
process_begin(q) ==
    /\ NotProcessing
    /\ query' = strip(q)
    /\ matches' = <<>>
    /\ best_match' = None
    /\ matchCalls' = [s \in SkillObjects |-> <<>>]
    /\ matchOut' = [s \in SkillObjects |-> None]
    /\ execCalls' = <<>>
    /\ execOutcome' = "none"
    /\ query_arg' = q
    /\ done_order' = IF done_order = NotRecorded THEN done_order ELSE <<>>
    /\ IF Len(strip(q)) = 0
       THEN /\ pc' = "returned"
            /\ result' = DidntCatch
            /\ match_task' = <<>>
       ELSE /\ pc' = "gather"
            /\ result' = None
            /\ match_task' = [i \in 1..Len(skills) |->
                          [st |-> "scheduled", out |-> None]]
    /\ UNCHANGED <<skills, jokeVars, whisperVars, timerVars, coordVars>>

(***************************************************************************)
(* The event loop starts the match task of the skill at index i:           *)
(* skill.match(query) is invoked.                                          *)
(***************************************************************************)
match_start(i) ==
    /\ i \in 1..Len(match_task)
    /\ match_task[i].st = "scheduled"
    /\ match_task' = [match_task EXCEPT ![i].st = "running"]
    /\ matchCalls' = [matchCalls EXCEPT ![skills[i]] = Append(@, query)]
    /\ UNCHANGED <<skills, pc, query, matches, best_match, result,
                   matchOut, execCalls>>
    /\ UNCHANGED <<execOutcome, query_arg, done_order, jokeVars, whisperVars,
                   timerVars, coordVars>>

(***************************************************************************)
(* The match of the skill at index i returns m.                            *)
(***************************************************************************)
match_return(i, m) ==
    /\ i \in 1..Len(match_task)
    /\ match_task[i].st = "running"
    /\ m \in skill_match(skills[i], query)
    /\ match_task' = [match_task EXCEPT ![i] = [st |-> "done", out |-> m]]
    /\ matchOut' = [matchOut EXCEPT ![skills[i]] = m]
    /\ done_order' = Returned(done_order, i)
    /\ UNCHANGED <<skills, pc, query, matches, best_match, result,
                   matchCalls, execCalls>>
    /\ UNCHANGED <<execOutcome, query_arg, jokeVars, whisperVars, timerVars,
                   coordVars>>

\* as match_raise, but the exception does not reach the awaiter of gather
match_raise_swallowed(i) ==
    /\ i \in 1..Len(match_task)
    /\ match_task[i].st = "running"
    /\ match_task' = [match_task EXCEPT ![i].st = "raised"]
    /\ pc' = pc
    /\ UNCHANGED <<skills, query, matches, best_match, result,
                   matchCalls, matchOut, execCalls>>
    /\ UNCHANGED <<execOutcome, query_arg, done_order, jokeVars, whisperVars,
                   timerVars, coordVars>>

(***************************************************************************)
(* The match of the skill at index i raises. gather (return_exceptions is  *)
(* False) hands the first exception to its awaiter at once: process has no *)
(* handler around the gather, so the call raises. The other match tasks    *)
(* are not cancelled and run on.                                           *)
(***************************************************************************)
match_raise(i) ==
    /\ i \in 1..Len(match_task)
    /\ match_task[i].st = "running"
    /\ match_task' = [match_task EXCEPT ![i].st = "raised"]
    /\ pc' = IF pc = "gather" THEN "raised" ELSE pc
    /\ UNCHANGED <<skills, query, matches, best_match, result,
                   matchCalls, matchOut, execCalls>>
    /\ UNCHANGED <<execOutcome, query_arg, done_order, jokeVars, whisperVars,
                   timerVars, coordVars>>

\* as gather, but with the results in the order in which the tasks returned
gather_as_completed ==
    [k \in 1..Len(done_order) |-> match_task[done_order[k]].out]

\* asyncio.gather: the results, in the order of the arguments
gather == [i \in 1..Len(match_task) |-> match_task[i].out]

\* gather's future is done: every match task has returned
GatherDone == \A i \in 1..Len(match_task) : match_task[i].st = "done"

(***************************************************************************)
(* The selection loop of process (orchestrator.py:41-46): the best so far  *)
(* after the first n matches.                                              *)
(***************************************************************************)
\* as FindBest, but a later match also replaces the best on a tie (>=)
RECURSIVE FindBest_tie_last(_, _)
FindBest_tie_last(ms, n) ==
    IF n = 0 THEN None
    ELSE LET best == FindBest_tie_last(ms, n - 1)
             match == ms[n]
         IN  IF match.confidence = NO_MATCH THEN best
             ELSE IF best = None \/ match.confidence >= best.confidence
                  THEN match
                  ELSE best

\* as FindBest, but without the skip of the NO_MATCH results
RECURSIVE FindBest_no_skip(_, _)
FindBest_no_skip(ms, n) ==
    IF n = 0 THEN None
    ELSE LET best == FindBest_no_skip(ms, n - 1)
             match == ms[n]
         IN  IF best = None \/ match.confidence > best.confidence
             THEN match
             ELSE best

RECURSIVE FindBest(_, _)
FindBest(ms, n) ==
    IF n = 0 THEN None
    ELSE LET best == FindBest(ms, n - 1)
             match == ms[n]
         IN  IF match.confidence = NO_MATCH THEN best
             ELSE IF best = None \/ match.confidence > best.confidence
                  THEN match
                  ELSE best

\* as ExecuteArgs, but with the entities of the first match of the list
ExecuteArgs_first_extracted(best, q) ==
    [skill |-> best.skill, query |-> q, extracted |-> gather[1].extracted]

\* the arguments of the execute call made for the chosen match
ExecuteArgs(best, q) ==
    [skill |-> best.skill, query |-> q, extracted |-> best.extracted]

\* as process_select, but resuming as soon as one match that is not
\* NO_MATCH has returned, and executing that one
process_select_first_completed ==
    /\ pc = "gather"
    /\ \E i \in 1..Len(match_task) :
          /\ match_task[i].st = "done"
          /\ match_task[i].out.confidence # NO_MATCH
          /\ best_match' = match_task[i].out
          /\ execCalls' = Append(execCalls,
                                 ExecuteArgs(match_task[i].out, query))
    /\ pc' = "execute"
    /\ UNCHANGED <<skills, query, match_task, matches, result,
                   matchCalls, matchOut>>
    /\ UNCHANGED <<execOutcome, query_arg, done_order, jokeVars, whisperVars,
                   timerVars, coordVars>>

\* an execute call for every match of the list that is not NO_MATCH
ExecuteAll(ms, q) ==
    LET positive == SelectSeq(ms, LAMBDA m : m.confidence # NO_MATCH)
    IN  [n \in 1..Len(positive) |-> ExecuteArgs(positive[n], q)]

\* as process_select, but calling the execute of every skill that matched
process_select_executes_all ==
    /\ pc = "gather"
    /\ GatherDone
    /\ matches' = gather
    /\ LET best == FindBest(gather, Len(gather))
       IN  /\ best_match' = best
           /\ IF best = None
              THEN /\ pc' = "returned"
                   /\ result' = _fallback_response(query)
                   /\ execCalls' = execCalls
              ELSE /\ pc' = "execute"
                   /\ result' = result
                   /\ execCalls' = execCalls \o ExecuteAll(gather, query)
    /\ UNCHANGED <<skills, query, match_task, matchCalls, matchOut>>
    /\ UNCHANGED <<execOutcome, query_arg, done_order, jokeVars, whisperVars,
                   timerVars, coordVars>>

(***************************************************************************)
(* process resumes after the gather: selection, then the fallback return   *)
(* or the call of the chosen skill's execute.                              *)
(***************************************************************************)
process_select ==
    /\ pc = "gather"
    /\ GatherDone
    /\ matches' = gather
    /\ LET best == FindBest(gather, Len(gather))
       IN  /\ best_match' = best
           /\ IF best = None
              THEN /\ pc' = "returned"
                   /\ result' = _fallback_response(query)
                   /\ execCalls' = execCalls
              ELSE /\ pc' = "execute"
                   /\ result' = result
                   /\ execCalls' = Append(execCalls, ExecuteArgs(best, query))
    /\ UNCHANGED <<skills, query, match_task, matchCalls, matchOut>>
    /\ UNCHANGED <<execOutcome, query_arg, done_order, jokeVars, whisperVars,
                   timerVars, coordVars>>

(***************************************************************************)
(* The chosen skill's execute returns a result, success or not.            *)
(***************************************************************************)
execute_return(ok) ==
    /\ pc = "execute"
    /\ pc' = "returned"
    /\ result' = SkillResult(ok, "skill_response", best_match.skill)
    /\ execOutcome' = "returned"
    /\ UNCHANGED <<skills, query, match_task, matches, best_match,
                   matchCalls, matchOut, execCalls>>
    /\ UNCHANGED <<query_arg, done_order, jokeVars, whisperVars,
                   timerVars, coordVars>>

\* as execute_raise, but without the handler: the exception leaves process
execute_raise_unhandled ==
    /\ pc = "execute"
    /\ pc' = "raised"
    /\ execOutcome' = "raised"
    /\ UNCHANGED <<skills, query, match_task, matches, best_match, result,
                   matchCalls, matchOut, execCalls>>
    /\ UNCHANGED <<query_arg, done_order, jokeVars, whisperVars,
                   timerVars, coordVars>>

(***************************************************************************)
(* The chosen skill's execute raises an Exception: the handler of process  *)
(* (orchestrator.py:54-58) returns the error result naming the skill.      *)
(***************************************************************************)
execute_raise ==
    /\ pc = "execute"
    /\ pc' = "returned"
    /\ result' = TroubleWith(best_match.skill)
    /\ execOutcome' = "raised"
    /\ UNCHANGED <<skills, query, match_task, matches, best_match,
                   matchCalls, matchOut, execCalls>>
    /\ UNCHANGED <<query_arg, done_order, jokeVars, whisperVars,
                   timerVars, coordVars>>

RouterNext ==
    \/ setup_register
    \/ \E q \in Queries : process_begin(q)
    \/ \E i \in 1..Len(match_task) : match_start(i)
    \/ \E i \in 1..Len(match_task) : \E m \in MatchReturns(skills[i]) : match_return(i, m)
    \/ \E i \in 1..Len(match_task) : match_raise(i)
    \/ process_select
    \/ \E ok \in BOOLEAN : execute_return(ok)
    \/ execute_raise

(***************************************************************************)
(*                               TimerSkill                                *)
(*                                                                         *)
(* Time is kept relative to the clock: a Timer's end_time is held as       *)
(* end_time - now, and a sleeping task holds the time left of its sleep.   *)
(* Both stop at 0: the code reads end_time only through                    *)
(* (end_time - now) > 0 and int(end_time - now).                           *)
(***************************************************************************)

\* the durations a set request can ask for, in seconds (_parse_duration
\* returns None, and match no "set", for a total of 0)
Durations == 1..MaxDuration

\* f"Timer {timer_id}", the name of a timer whose query names none (a name
\* taken from the query is not modelled: nothing but the texts reads it)
DefaultName(timer_id) == "Timer " \o ToString(timer_id)

\* the Timer dataclass; task is the position of its task in countdown
Timer(id, name, duration_seconds, end_time, t) ==
    [id |-> id, name |-> name, duration_seconds |-> duration_seconds,
     end_time |-> end_time, task |-> t]

\* what a countdown task holds of its timer: the fields it and the
\* completion callback read
Snapshot(timer) ==
    [id |-> timer.id, name |-> timer.name,
     duration_seconds |-> timer.duration_seconds]

\* SkillResult.ok / SkillResult.error of the timer skill: the kind of the
\* response text, and the data cancelled=, count=, timer_id= (0: not given)
TimerResult(success, response, n) ==
    [success |-> success, response |-> response, n |-> n]

NoTimerResult == TimerResult(TRUE, "none_yet", 0)

\* the keys of the active map
TimerIds == {timers[i].id : i \in 1..Len(timers)}

\* del self.timers[id]
DelTimer(ts, id) == SelectSeq(ts, LAMBDA t : t.id # id)

\* as SetTimer, but the map then holds the new timer alone
SetTimer_alone(ts, id, timer) == <<timer>>

\* self.timers[id] = timer: a new key goes last, a key already there keeps
\* its place
SetTimer(ts, id, timer) ==
    IF \E i \in 1..Len(ts) : ts[i].id = id
    THEN [i \in 1..Len(ts) |-> IF ts[i].id = id THEN timer ELSE ts[i]]
    ELSE Append(ts, timer)

\* a countdown task: the timer it was created for, where it is ("created",
\* "sleeping", "ready", "cancelling", "done", "cancelled"), the time left
\* of its sleep, and whether the sleep has elapsed
Task(timer, st, sleep, woken) ==
    [timer |-> timer, st |-> st, sleep |-> sleep, woken |-> woken]

(***************************************************************************)
(* TimerSkill.__init__                                                     *)
(***************************************************************************)
TimerInit ==
    /\ timers = <<>>
    /\ next_id = 1
    /\ on_timer_complete \in BOOLEAN
    /\ countdown = <<>>
    /\ timer_result = NoTimerResult
    /\ completed = <<>>
    /\ cancelled = {}

\* as _set_timer, but the id is taken from the number of active timers
_set_timer_id_from_count(duration_seconds) ==
    LET timer_id == Len(timers) + 1
        name == DefaultName(timer_id)
        timer == Timer(timer_id, name, duration_seconds, duration_seconds,
                       Len(countdown) + 1)
    IN  /\ next_id' = next_id + 1
        /\ countdown' = Append(countdown,
                               Task(Snapshot(timer), "created", 0, FALSE))
        /\ completed' = Append(completed, 0)
        /\ timers' = SetTimer(timers, timer_id, timer)
        /\ timer_result' = TimerResult(TRUE, "timer_set", timer_id)
        /\ UNCHANGED <<on_timer_complete, cancelled>>

(***************************************************************************)
(* TimerSkill._set_timer(duration_seconds, query): it has no await, and    *)
(* asyncio.create_task only schedules the countdown.                       *)
(***************************************************************************)
_set_timer(duration_seconds) ==
    LET timer_id == next_id
        name == DefaultName(timer_id)
        timer == Timer(timer_id, name, duration_seconds, duration_seconds,
                       Len(countdown) + 1)
    IN  /\ next_id' = next_id + 1
        /\ countdown' = Append(countdown,
                               Task(Snapshot(timer), "created", 0, FALSE))
        /\ completed' = Append(completed, 0)
        /\ timers' = SetTimer(timers, timer_id, timer)
        /\ timer_result' = TimerResult(TRUE, "timer_set", timer_id)
        /\ UNCHANGED <<on_timer_complete, cancelled>>

(***************************************************************************)
(* TimerSkill._list_timers: one line per timer with time remaining.        *)
(***************************************************************************)
ListedLines == SelectSeq(timers, LAMBDA t : t.end_time > 0)

\* as _list_timers, but dropping from the map the timers it does not list
_list_timers_prunes ==
    /\ timer_result' =
          IF Len(timers) = 0
          THEN TimerResult(TRUE, "no_timers_running", 0)
          ELSE [success |-> TRUE, response |-> "active_timers",
                n |-> Len(timers),
                lines |-> [i \in 1..Len(ListedLines) |->
                             [name |-> ListedLines[i].name,
                              remaining |-> ListedLines[i].end_time]]]
    /\ timers' = ListedLines
    /\ UNCHANGED <<next_id, on_timer_complete, countdown, completed,
                   cancelled>>

_list_timers ==
    /\ timer_result' =
          IF Len(timers) = 0
          THEN TimerResult(TRUE, "no_timers_running", 0)
          ELSE [success |-> TRUE, response |-> "active_timers",
                n |-> Len(timers),
                lines |-> [i \in 1..Len(ListedLines) |->
                             [name |-> ListedLines[i].name,
                              remaining |-> ListedLines[i].end_time]]]
    /\ UNCHANGED <<timers, next_id, on_timer_complete, countdown,
                   completed, cancelled>>

\* as Task.cancel, but without effect on a task that has not run yet
TaskCancel_not_started(t) ==
    IF t.st \in {"done", "cancelled", "created"}
    THEN t
    ELSE [t EXCEPT !.st = "cancelling", !.sleep = 0]

(***************************************************************************)
(* asyncio.Task.cancel(): a task that is done is left alone; any other is  *)
(* marked, and the event loop then throws CancelledError into it at the    *)
(* await it is suspended on (or before its first step), also when the      *)
(* sleep has already elapsed and the wakeup is only scheduled. A sleep     *)
(* still pending is cancelled with the task.                               *)
(***************************************************************************)
TaskCancel(t) ==
    IF t.st \in {"done", "cancelled"} THEN t
    ELSE [t EXCEPT !.st = "cancelling", !.sleep = 0]

\* the tasks of the timers in the active map
MapTasks == {timers[i].task : i \in 1..Len(timers)}

\* as _cancel_timers, but reporting the number of timers ever created
_cancel_timers_counts_created ==
    LET count == Len(timers)
    IN  IF count = 0
        THEN /\ timer_result' = TimerResult(TRUE, "no_timers_to_cancel", 0)
             /\ UNCHANGED <<timers, next_id, on_timer_complete, countdown,
                            completed, cancelled>>
        ELSE /\ countdown' = [k \in 1..Len(countdown) |->
                                IF k \in MapTasks THEN TaskCancel(countdown[k])
                                ELSE countdown[k]]
             /\ timers' = <<>>
             /\ timer_result' = TimerResult(TRUE, "cancelled", Len(countdown))
             /\ cancelled' = cancelled \cup MapTasks
             /\ UNCHANGED <<next_id, on_timer_complete, completed>>

\* as _cancel_timers, but without self.timers.clear()
_cancel_timers_no_clear ==
    LET count == Len(timers)
    IN  IF count = 0
        THEN /\ timer_result' = TimerResult(TRUE, "no_timers_to_cancel", 0)
             /\ UNCHANGED <<timers, next_id, on_timer_complete, countdown,
                            completed, cancelled>>
        ELSE /\ countdown' = [k \in 1..Len(countdown) |->
                                IF k \in MapTasks THEN TaskCancel(countdown[k])
                                ELSE countdown[k]]
             /\ timer_result' = TimerResult(TRUE, "cancelled", count)
             /\ cancelled' = cancelled \cup MapTasks
             /\ UNCHANGED <<timers, next_id, on_timer_complete, completed>>

(***************************************************************************)
(* TimerSkill._cancel_timers                                               *)
(***************************************************************************)
_cancel_timers ==
    LET count == Len(timers)
    IN  IF count = 0
        THEN /\ timer_result' = TimerResult(TRUE, "no_timers_to_cancel", 0)
             /\ UNCHANGED <<timers, next_id, on_timer_complete, countdown,
                            completed, cancelled>>
        ELSE /\ countdown' = [k \in 1..Len(countdown) |->
                                IF k \in MapTasks THEN TaskCancel(countdown[k])
                                ELSE countdown[k]]
             /\ timers' = <<>>
             /\ timer_result' = TimerResult(TRUE, "cancelled", count)
             /\ cancelled' = cancelled \cup MapTasks
             /\ UNCHANGED <<next_id, on_timer_complete, completed>>

(***************************************************************************)
(* TimerSkill.execute(query, extracted): the dispatch on extracted.action. *)
(***************************************************************************)
TimerActions == {"set", "list", "cancel", "unknown"}

timer_execute(action, duration_seconds) ==
    IF action = "set" THEN _set_timer(duration_seconds)
    ELSE IF action = "list" THEN _list_timers
    ELSE IF action = "cancel" THEN _cancel_timers
    ELSE /\ timer_result' = TimerResult(FALSE, "what_would_you_like", 0)
         /\ UNCHANGED <<timers, next_id, on_timer_complete, countdown,
                        completed, cancelled>>

\* the requests the model makes: a set only while fewer than MaxTimers
\* timers were ever created; the duration only matters to a set
TimerRequest(action, duration_seconds) ==
    /\ action = "set" => Len(countdown) < MaxTimers
    /\ action # "set" => duration_seconds = 1
    /\ timer_execute(action, duration_seconds)
    /\ UNCHANGED <<routerVars, coordVars>>

(***************************************************************************)
(* The event loop runs the first step of countdown task k:                 *)
(* _timer_countdown up to its await asyncio.sleep(duration_seconds).       *)
(***************************************************************************)
countdown_start(k) ==
    /\ countdown[k].st = "created"
    /\ countdown' = [countdown EXCEPT ![k].st = "sleeping",
                                      ![k].sleep =
                                          countdown[k].timer.duration_seconds]
    /\ timer_result' = NoTimerResult
    /\ UNCHANGED <<timers, next_id, on_timer_complete, completed, cancelled>>
    /\ UNCHANGED <<routerVars, coordVars>>

(***************************************************************************)
(* The sleep of task k has elapsed: the loop sets the sleep's future and   *)
(* schedules the wakeup of the task.                                       *)
(***************************************************************************)
sleep_elapsed(k) ==
    /\ countdown[k].st = "sleeping"
    /\ countdown[k].sleep = 0
    /\ countdown' = [countdown EXCEPT ![k].st = "ready", ![k].woken = TRUE]
    /\ timer_result' = NoTimerResult
    /\ UNCHANGED <<timers, next_id, on_timer_complete, completed, cancelled>>
    /\ UNCHANGED <<routerVars, coordVars>>

(***************************************************************************)
(* OllieAssistant._on_timer(timer), the completion callback the assistant  *)
(* gives the timer skill (main.py:86): with a synthesizer it creates a     *)
(* task for tts.speak("Timer ... is complete!"), which the event loop runs *)
(* later; without one it only prints.                                      *)
(***************************************************************************)
_on_timer ==
    announce' = IF tts THEN [announce EXCEPT !.created = @ + 1]
                ELSE announce

\* as _timer_countdown, but the timer stays in the active map
_timer_countdown_no_del(k) ==
    LET timer == countdown[k].timer
    IN  /\ countdown[k].st = "ready"
        /\ countdown' = [countdown EXCEPT ![k].st = "done"]
        /\ completed' = IF timer.id \in TimerIds /\ on_timer_complete
                        THEN [completed EXCEPT ![k] = @ + 1]
                        ELSE completed
        /\ IF timer.id \in TimerIds /\ on_timer_complete
           THEN _on_timer ELSE UNCHANGED announce
        /\ timer_result' = NoTimerResult
        /\ UNCHANGED <<timers, next_id, on_timer_complete, cancelled>>
        /\ UNCHANGED <<routerVars, flowVars>>

\* as _timer_countdown, but going on after a cancellation (CancelledError
\* swallowed at the sleep) and calling back without looking at the map
_timer_countdown_ignores_cancel(k) ==
    LET timer == countdown[k].timer
    IN  /\ countdown[k].st \in {"ready", "cancelling"}
        /\ countdown' = [countdown EXCEPT ![k].st = "done"]
        /\ timers' = DelTimer(timers, timer.id)
        /\ completed' = IF on_timer_complete
                        THEN [completed EXCEPT ![k] = @ + 1]
                        ELSE completed
        /\ IF on_timer_complete THEN _on_timer ELSE UNCHANGED announce
        /\ timer_result' = NoTimerResult
        /\ UNCHANGED <<next_id, on_timer_complete, cancelled>>
        /\ UNCHANGED <<routerVars, flowVars>>

(***************************************************************************)
(* _timer_countdown after the sleep (timer.py:137-140).                    *)
(***************************************************************************)
_timer_countdown(k) ==
    LET timer == countdown[k].timer
    IN  /\ countdown[k].st = "ready"
        /\ countdown' = [countdown EXCEPT ![k].st = "done"]
        /\ IF timer.id \in TimerIds
           THEN /\ timers' = DelTimer(timers, timer.id)
                /\ completed' = IF on_timer_complete
                                THEN [completed EXCEPT ![k] = @ + 1]
                                ELSE completed
                /\ IF on_timer_complete
                   THEN _on_timer ELSE UNCHANGED announce
           ELSE UNCHANGED <<timers, completed, announce>>
        /\ timer_result' = NoTimerResult
        /\ UNCHANGED <<next_id, on_timer_complete, cancelled>>
        /\ UNCHANGED <<routerVars, flowVars>>

(***************************************************************************)
(* The event loop delivers CancelledError to task k: the coroutine ends    *)
(* at its await, nothing after the sleep runs.                             *)
(***************************************************************************)
cancel_delivered(k) ==
    /\ countdown[k].st = "cancelling"
    /\ countdown' = [countdown EXCEPT ![k].st = "cancelled"]
    /\ timer_result' = NoTimerResult
    /\ UNCHANGED <<timers, next_id, on_timer_complete, completed, cancelled>>
    /\ UNCHANGED <<routerVars, coordVars>>

(***************************************************************************)
(* One second passes.                                                      *)
(***************************************************************************)
Dec(n) == IF n > 0 THEN n - 1 ELSE 0

Tick ==
    /\ timers' = [i \in 1..Len(timers) |->
                    [timers[i] EXCEPT !.end_time = Dec(@)]]
    /\ countdown' = [k \in 1..Len(countdown) |->
                       [countdown[k] EXCEPT
                          !.sleep = IF countdown[k].st = "sleeping"
                                    THEN Dec(@) ELSE @]]
    /\ timer_result' = NoTimerResult
    /\ UNCHANGED <<next_id, on_timer_complete, completed, cancelled>>
    /\ UNCHANGED <<routerVars, coordVars>>

TimerNext ==
    \/ \E a \in TimerActions, d \in Durations : TimerRequest(a, d)
    \/ \E k \in 1..Len(countdown) : countdown_start(k)
    \/ \E k \in 1..Len(countdown) : sleep_elapsed(k)
    \/ \E k \in 1..Len(countdown) : _timer_countdown(k)
    \/ \E k \in 1..Len(countdown) : cancel_delivered(k)
    \/ Tick

(***************************************************************************)
(*                 OllieAssistant and OpenWakeWordDetector                 *)
(*                                                                         *)
(* One main flow (run) and the tasks _on_timer creates share the event     *)
(* loop; the arecord process and the passing of time are concurrent with   *)
(* them. Audio is counted in frames of CHUNK_SAMPLES samples. A frame is   *)
(* "stale" when arecord wrote it before or during a speak call that has    *)
(* begun since, "fresh" otherwise.                                         *)
(***************************************************************************)
Frames == {"fresh", "stale"}

\* _read_audio_chunk returned None
NoChunk == "None"

\* listen: silence_start = None
NoTime == 0 - 1

\* how many chunks listen is seen to collect: one more than min_speech_chunks
MaxChunks == min_speech_chunks + 1

\* np.abs(chunk).mean() of a frame: a quiet one, the two thresholds, one
\* between them and a loud one
Volumes == {100, SilenceLevel, 400, SpeechLevel, 2000}

\* the positions of the main flow at which it is suspended in an await, so
\* that the event loop runs other tasks and the signal handlers
AwaitPoints == {"speak_tts", "speak_decay", "health_sleep", "listen",
                "listen_stt", "pq_process", "idle_sleep", "loop_sleep",
                "recover_sleep2", "recover_sleep1"}

\* the positions inside the speak sequence, between pause and resume
Speaking == {"speak_tts", "speak_decay"}

\* SkillResult.speak is None (skill.py:26)
NoText == "None"

\* no wake check was made
NoWake == [read |-> FALSE, passed |-> FALSE, on_wake |-> 0, detected |-> FALSE]

\* process_query is not running, or has no result yet
NoLocals ==
    [result |-> [response |-> NoText, speak |-> NoText], speak_text |-> NoText]

\* OllieAssistant.__init__ (main.py:62-79): nothing is set up yet
AssistantNew ==
    /\ tts = FALSE
    /\ _running = FALSE
    /\ run_pc = "new"
    /\ speak_ret = "none"
    /\ announce = [created |-> 0, playing |-> 0]
    /\ listen_now = 0
    /\ audio_chunks = 0
    /\ silence_start = NoTime
    /\ speech_detected = FALSE
    /\ interrupted = FALSE
    /\ model = FALSE
    /\ _paused = FALSE
    /\ wakeword_running = FALSE
    /\ _arecord_proc = "None"
    /\ pipe = <<>>
    /\ stdout_buffer = <<>>
    /\ arecord_procs = 0
    /\ speak_log = <<>>
    /\ spoken = <<>>
    /\ pq_locals = NoLocals
    /\ called = <<>>
    /\ fed = "none"
    /\ wake = NoWake
    /\ listen_exit = "none"
    /\ failure = "none"
    /\ stop_from = "none"

(***************************************************************************)
(* The state in which run() calls speak with its greeting, setup() having  *)
(* returned (main.py:283-299): Piper is available or self.tts is None; the *)
(* wake model is loaded or None, and start() has started arecord only with *)
(* a model (wakeword_oww.py:189-193).                                      *)
(***************************************************************************)
CoordInit ==
    /\ tts \in BOOLEAN
    /\ model \in BOOLEAN
    /\ _arecord_proc = IF model THEN "alive" ELSE "None"
    /\ arecord_procs = IF model THEN 1 ELSE 0
    /\ wakeword_running = model
    /\ _running = FALSE
    /\ run_pc = "speak"
    /\ speak_ret = "greet"
    /\ announce = [created |-> 0, playing |-> 0]
    /\ listen_now = 0
    /\ audio_chunks = 0
    /\ silence_start = NoTime
    /\ speech_detected = FALSE
    /\ interrupted = FALSE
    /\ _paused = FALSE
    /\ pipe = <<>>
    /\ stdout_buffer = <<>>
    /\ speak_log = <<>>
    /\ spoken = <<>>
    /\ pq_locals = NoLocals
    /\ called = <<>>
    /\ fed = "none"
    /\ wake = NoWake
    /\ listen_exit = "none"
    /\ failure = "none"
    /\ stop_from = "none"

(***************************************************************************)
(* _arecord_proc.stdout is a buffered reader on the pipe (Popen with       *)
(* stdout=PIPE and the default bufsize, wakeword_oww.py:85-96). A read     *)
(* serves what its buffer holds first; otherwise it reads the pipe, and    *)
(* what the pipe held beyond the request may stay in the buffer.           *)
(* The outcomes of stdout.read(chunk_bytes), as [chunk, buffer, pipe].     *)
(***************************************************************************)
StreamRead(buffer, p) ==
    IF buffer # <<>>
    THEN {[chunk |-> Head(buffer), buffer |-> Tail(buffer), pipe |-> p]}
    ELSE IF p # <<>>
    THEN {[chunk |-> Head(p), buffer |-> <<>>, pipe |-> Tail(p)]}
         \cup (IF Len(p) >= 2
               THEN {[chunk |-> Head(p), buffer |-> <<p[2]>>,
                      pipe |-> Tail(Tail(p))]}
               ELSE {})
    ELSE {[chunk |-> NoChunk, buffer |-> <<>>, pipe |-> <<>>]}

\* the read blocks: arecord is running and has nothing written
ReadBlocks ==
    _arecord_proc = "alive" /\ stdout_buffer = <<>> /\ pipe = <<>>

(***************************************************************************)
(* OpenWakeWordDetector._read_audio_chunk (wakeword_oww.py:108-124): None  *)
(* without a process or at the end of a dead process's output.             *)
(***************************************************************************)
_read_audio_chunk ==
    IF _arecord_proc = "None"
    THEN {[chunk |-> NoChunk, buffer |-> stdout_buffer, pipe |-> pipe]}
    ELSE StreamRead(stdout_buffer, pipe)

(***************************************************************************)
(* OpenWakeWordDetector.flush_audio_buffer (wakeword_oww.py:165-182):      *)
(* while select finds the pipe readable, read a chunk and drop it. select  *)
(* looks at the pipe, not at the reader's buffer. The buffers it can       *)
(* leave, the pipe being empty at the end.                                 *)
(***************************************************************************)
RECURSIVE FlushLoop(_, _)
FlushLoop(buffer, p) ==
    IF p = <<>> THEN {buffer}
    ELSE UNION {FlushLoop(r.buffer, r.pipe) : r \in StreamRead(buffer, p)}

flush_audio_buffer ==
    IF _arecord_proc = "None"
    THEN {[buffer |-> stdout_buffer, pipe |-> pipe]}
    ELSE {[buffer |-> b, pipe |-> <<>>] : b \in FlushLoop(stdout_buffer, pipe)}

\* OpenWakeWordDetector._stop_arecord (wakeword_oww.py:98-106)
_stop_arecord ==
    /\ _arecord_proc' = "None"
    /\ arecord_procs' = IF _arecord_proc = "alive"
                        THEN arecord_procs - 1 ELSE arecord_procs
    /\ pipe' = <<>>
    /\ stdout_buffer' = <<>>

\* as _start_arecord, but starting a process whatever the handle holds
_start_arecord_no_guard ==
    /\ _arecord_proc' = "alive"
    /\ arecord_procs' = arecord_procs + 1
    /\ pipe' = <<>>
    /\ stdout_buffer' = <<>>

(***************************************************************************)
(* OpenWakeWordDetector._start_arecord (wakeword_oww.py:80-96): nothing    *)
(* with a process attached, else a new process with an empty pipe.         *)
(***************************************************************************)
_start_arecord ==
    IF _arecord_proc # "None"
    THEN UNCHANGED <<_arecord_proc, arecord_procs, pipe, stdout_buffer>>
    ELSE /\ _arecord_proc' = "alive"
         /\ arecord_procs' = arecord_procs + 1
         /\ pipe' = <<>>
         /\ stdout_buffer' = <<>>

listenVars == <<listen_now, audio_chunks, silence_start, speech_detected,
                interrupted>>

streamVars == <<_arecord_proc, pipe, stdout_buffer, arecord_procs>>

(***************************************************************************)
(* OpenWakeWordDetector.start (wakeword_oww.py:184-193), the model being   *)
(* loaded or None: nothing without a model; else set _running and start    *)
(* arecord, which raises when Popen cannot start the process.              *)
(***************************************************************************)
start(popen_raises) ==
    IF ~model
    THEN UNCHANGED <<wakeword_running, streamVars>>
    ELSE /\ wakeword_running' = TRUE
         /\ IF popen_raises /\ _arecord_proc = "None"
            THEN UNCHANGED streamVars
            ELSE _start_arecord

\* OpenWakeWordDetector.stop (wakeword_oww.py:195-198)
stop ==
    /\ wakeword_running' = FALSE
    /\ _stop_arecord

\* a failure met by a speak call counts for the interaction loop only
FailureIn(ret, kind) == IF ret = "greet" THEN failure ELSE kind

\* as AfterSpeak, but an exception of the apology's speak leaves run
AfterSpeak_escapes(ret, raised, kind) ==
    /\ failure' = kind
    /\ UNCHANGED pq_locals
    /\ IF ret = "greet"
       THEN /\ speak_ret' = "none"
            /\ UNCHANGED spoken
            /\ IF raised
               THEN run_pc' = "shutdown" /\ UNCHANGED <<_running, stop_from>>
               ELSE run_pc' = "loop" /\ _running' = TRUE /\ stop_from' = "none"
       ELSE IF ret = "result" /\ raised
       THEN /\ run_pc' = "speak"
            /\ speak_ret' = "apology"
            /\ spoken' = Append(spoken, "apology")
            /\ UNCHANGED <<_running, stop_from>>
       ELSE /\ run_pc' = IF raised THEN "shutdown" ELSE "loop_sleep"
            /\ speak_ret' = "none"
            /\ UNCHANGED <<spoken, _running, stop_from>>

(***************************************************************************)
(* What the caller of speak does when the call returns or raises, up to    *)
(* its next await:                                                         *)
(*   - run, after the greeting (main.py:299-307): sets _running and enters *)
(*     the loop; an exception leaves run, and async_main shuts down        *)
(*     (main.py:374-381);                                                  *)
(*   - process_query, speaking the result (main.py:261-264): returns to    *)
(*     the loop's sleep (main.py:333); on an exception it speaks the       *)
(*     apology;                                                            *)
(*   - process_query, speaking the apology (main.py:264): an exception     *)
(*     reaches the handler of the loop (main.py:337-341).                  *)
(***************************************************************************)
AfterSpeak(ret, raised, kind) ==
    /\ failure' = kind
    /\ UNCHANGED pq_locals
    /\ IF ret = "greet"
       THEN /\ speak_ret' = "none"
            /\ UNCHANGED spoken
            /\ IF raised
               THEN run_pc' = "shutdown" /\ UNCHANGED <<_running, stop_from>>
               ELSE run_pc' = "loop" /\ _running' = TRUE /\ stop_from' = "none"
       ELSE IF ret = "result" /\ raised
       THEN /\ run_pc' = "speak"
            /\ speak_ret' = "apology"
            /\ spoken' = Append(spoken, "apology")
            /\ UNCHANGED <<_running, stop_from>>
       ELSE /\ run_pc' = IF raised THEN "recover_sleep2" ELSE "loop_sleep"
            /\ speak_ret' = "none"
            /\ UNCHANGED <<spoken, _running, stop_from>>

\* as speak_begin, but calling the synthesizer without pausing the detector
speak_begin_no_pause ==
    /\ run_pc = "speak"
    /\ IF tts
       THEN /\ run_pc' = "speak_tts"
            /\ speak_log' = <<"synth">>
            /\ UNCHANGED <<_paused, pipe, stdout_buffer, speak_ret, _running,
                           stop_from, failure, spoken, pq_locals>>
       ELSE /\ speak_log' = <<>>
            /\ AfterSpeak(speak_ret, FALSE, failure)
            /\ UNCHANGED <<_paused, pipe, stdout_buffer>>
    /\ UNCHANGED <<tts, model, wakeword_running, called, _arecord_proc,
                   arecord_procs, listenVars, fed, wake, listen_exit,
                   announce>>
    /\ UNCHANGED <<routerVars, timerVars>>

(***************************************************************************)
(* OllieAssistant.speak(text) up to its first await (main.py:159-167):     *)
(* with a synthesizer, pause the detector and call tts.speak; without one  *)
(* the call returns at once. The frames queued at the pause are from       *)
(* before the speech.                                                      *)
(***************************************************************************)
speak_begin ==
    /\ run_pc = "speak"
    /\ IF tts
       THEN /\ _paused' = TRUE
            /\ pipe' = [i \in 1..Len(pipe) |-> "stale"]
            /\ stdout_buffer' = [i \in 1..Len(stdout_buffer) |-> "stale"]
            /\ run_pc' = "speak_tts"
            /\ speak_log' = <<"pause", "synth">>
            /\ UNCHANGED <<speak_ret, _running, stop_from, failure, spoken,
                           pq_locals>>
       ELSE /\ speak_log' = <<>>
            /\ AfterSpeak(speak_ret, FALSE, failure)
            /\ UNCHANGED <<_paused, pipe, stdout_buffer>>
    /\ UNCHANGED <<tts, model, wakeword_running, called, _arecord_proc,
                   arecord_procs, listenVars, fed, wake, listen_exit,
                   announce>>
    /\ UNCHANGED <<routerVars, timerVars>>

\* how a call of the synthesizer ends: played, not played, or an exception
TtsOutcomes == {"played", "not_played", "raised"}

(***************************************************************************)
(* tts.speak returns or raises (main.py:166-172): an Exception is caught   *)
(* and printed, and speak goes on to await asyncio.sleep(0.5).             *)
(***************************************************************************)
tts_returns(outcome) ==
    /\ run_pc = "speak_tts"
    /\ run_pc' = "speak_decay"
    /\ failure' = IF outcome = "played" THEN failure
                  ELSE FailureIn(speak_ret, "synthesis")
    /\ UNCHANGED <<tts, model, wakeword_running, called, _running, speak_ret,
                   _paused, streamVars, listenVars, speak_log, spoken,
                   pq_locals, fed, wake, listen_exit, stop_from, announce>>
    /\ UNCHANGED <<routerVars, timerVars>>

(***************************************************************************)
(* The decay sleep is over (main.py:172-177): flush_audio_buffer, then     *)
(* resume, then speak returns. When the flush raises (select or read on    *)
(* the pipe fails), the exception leaves speak before resume.              *)
(***************************************************************************)
decay_elapsed(flush_raises) ==
    /\ run_pc = "speak_decay"
    /\ IF flush_raises
       THEN /\ speak_log' = speak_log \o <<"decay", "flush_raised">>
            /\ AfterSpeak(speak_ret, TRUE, FailureIn(speak_ret, "flush"))
            /\ UNCHANGED <<_paused, pipe, stdout_buffer>>
       ELSE /\ \E r \in flush_audio_buffer :
                 pipe' = r.pipe /\ stdout_buffer' = r.buffer
            /\ _paused' = FALSE
            /\ speak_log' = speak_log \o <<"decay", "flush", "resume">>
            /\ AfterSpeak(speak_ret, FALSE, failure)
    /\ UNCHANGED <<tts, model, wakeword_running, called, _arecord_proc,
                   arecord_procs, listenVars, fed, wake, listen_exit,
                   announce>>
    /\ UNCHANGED <<routerVars, timerVars>>

\* the observations of one interaction, cleared when the loop starts over
ClearObservations ==
    /\ speak_log' = <<>>
    /\ spoken' = <<>>
    /\ pq_locals' = NoLocals
    /\ fed' = "none"
    /\ wake' = NoWake
    /\ listen_exit' = "none"

\* the part of the loop body after the health check (main.py:317-331)
AfterHealthCheck == IF model THEN "read" ELSE "idle_sleep"

(***************************************************************************)
(* The top of the loop of run (main.py:307-315): leave when _running is    *)
(* false; when a health check is due, _check_audio_health (main.py:266-279)*)
(* stops a dead arecord and sleeps a second before restarting it, and      *)
(* returns False at once when no process is attached ("Audio health check  *)
(* failed" is printed).                                                    *)
(***************************************************************************)
loop_top(health_check_due) ==
    /\ run_pc = "loop"
    /\ IF ~_running
       THEN /\ run_pc' = "shutdown"
            /\ UNCHANGED <<streamVars, failure>>
       ELSE IF health_check_due /\ _arecord_proc = "dead"
       THEN /\ _stop_arecord
            /\ run_pc' = "health_sleep"
            /\ failure' = "audio_source"
       ELSE IF health_check_due /\ _arecord_proc = "None"
       THEN /\ run_pc' = AfterHealthCheck
            /\ failure' = "audio_source"
            /\ UNCHANGED streamVars
       ELSE /\ run_pc' = AfterHealthCheck
            /\ failure' = "none"
            /\ UNCHANGED streamVars
    /\ UNCHANGED <<tts, model, wakeword_running, called, _running, speak_ret,
                   _paused, listenVars, speak_log, spoken, pq_locals, fed,
                   wake, listen_exit, stop_from, announce>>
    /\ UNCHANGED <<routerVars, timerVars>>

(***************************************************************************)
(* _check_audio_health after its sleep (main.py:276-277): _start_arecord,  *)
(* which raises when arecord cannot be started; the exception reaches the  *)
(* handler of the loop (main.py:337-341).                                  *)
(***************************************************************************)
health_restart(popen_raises) ==
    /\ run_pc = "health_sleep"
    /\ IF popen_raises
       THEN /\ run_pc' = "recover_sleep2"
            /\ UNCHANGED streamVars
       ELSE /\ _start_arecord
            /\ run_pc' = AfterHealthCheck
    /\ UNCHANGED <<tts, model, wakeword_running, called, _running, speak_ret,
                   _paused, listenVars, speak_log, spoken, pq_locals, fed,
                   wake, listen_exit, failure, stop_from, announce>>
    /\ UNCHANGED <<routerVars, timerVars>>

\* listen up to its loop (main.py:184-198): the locals, and pause
listen_begin ==
    /\ run_pc' = "listen"
    /\ listen_now' = 0
    /\ audio_chunks' = 0
    /\ silence_start' = NoTime
    /\ speech_detected' = FALSE
    /\ interrupted' = FALSE
    /\ _paused' = TRUE

\* as process_audio, but without the test of _paused
process_audio_ignores_pause(score_above) ==
    IF ~model
    THEN [predicted |-> FALSE, on_wake |-> 0, detected |-> FALSE]
    ELSE [predicted |-> TRUE,
          on_wake |-> IF score_above THEN 1 ELSE 0,
          detected |-> score_above]

(***************************************************************************)
(* OpenWakeWordDetector.process_audio (wakeword_oww.py:126-151): False     *)
(* without a prediction when no model is loaded or the detector is paused; *)
(* otherwise the model predicts on the chunk, and at the first score above *)
(* the threshold on_wake is called once and True is returned. score_above  *)
(* says whether the model gives such a score.                              *)
(***************************************************************************)
process_audio(score_above) ==
    IF ~model \/ _paused
    THEN [predicted |-> FALSE, on_wake |-> 0, detected |-> FALSE]
    ELSE [predicted |-> TRUE,
          on_wake |-> IF score_above THEN 1 ELSE 0,
          detected |-> score_above]

(***************************************************************************)
(* The loop body reads a chunk and, when one was read and the assistant is *)
(* running, hands it to process_audio (main.py:317-328); on a detection    *)
(* run calls listen.                                                       *)
(***************************************************************************)
read_chunk(score_above) ==
    /\ run_pc = "read"
    /\ ~ReadBlocks
    /\ \E r \in _read_audio_chunk :
         /\ pipe' = r.pipe
         /\ stdout_buffer' = r.buffer
         /\ IF r.chunk # NoChunk /\ _running
            THEN LET pa == process_audio(score_above)
                 IN  /\ wake' = [read |-> TRUE, passed |-> TRUE,
                                 on_wake |-> pa.on_wake,
                                 detected |-> pa.detected]
                     /\ fed' = IF pa.predicted THEN r.chunk ELSE fed
                     /\ IF pa.detected
                        THEN listen_begin
                        ELSE /\ run_pc' = "loop_sleep"
                             /\ UNCHANGED <<listenVars, _paused>>
            ELSE /\ score_above = FALSE
                 /\ wake' = [NoWake EXCEPT !.read = r.chunk # NoChunk]
                 /\ run_pc' = "loop_sleep"
                 /\ UNCHANGED <<fed, listenVars, _paused>>
    /\ UNCHANGED <<tts, model, wakeword_running, called, _running, speak_ret,
                   _arecord_proc, arecord_procs, speak_log, spoken, pq_locals,
                   listen_exit, failure, stop_from, announce>>
    /\ UNCHANGED <<routerVars, timerVars>>

(***************************************************************************)
(* The read of the chunk or the wake model raises (main.py:319-322): the   *)
(* exception reaches the handler of the loop (main.py:337-341).            *)
(***************************************************************************)
read_raises ==
    /\ run_pc = "read"
    /\ _arecord_proc # "None"
    /\ run_pc' = "recover_sleep2"
    /\ failure' = "wake_detection"
    /\ UNCHANGED <<tts, model, wakeword_running, called, _running, speak_ret,
                   _paused, streamVars, listenVars, speak_log, spoken,
                   pq_locals, fed, wake, listen_exit, stop_from, announce>>
    /\ UNCHANGED <<routerVars, timerVars>>

\* without a wake model the loop sleeps 0.1 s, then 0.01 s (main.py:329-333)
idle_sleep ==
    /\ run_pc = "idle_sleep"
    /\ run_pc' = "loop_sleep"
    /\ UNCHANGED <<tts, model, wakeword_running, called, _running, speak_ret,
                   _paused, streamVars, listenVars, speak_log, spoken,
                   pq_locals, fed, wake, listen_exit, failure, stop_from,
                   announce>>
    /\ UNCHANGED <<routerVars, timerVars>>

\* the sleep that ends the loop body is over (main.py:333)
loop_sleep ==
    /\ run_pc = "loop_sleep"
    /\ run_pc' = "loop"
    /\ ClearObservations
    /\ listen_now' = 0
    /\ audio_chunks' = 0
    /\ silence_start' = NoTime
    /\ speech_detected' = FALSE
    /\ interrupted' = FALSE
    /\ UNCHANGED <<tts, model, wakeword_running, called, _running, speak_ret,
                   _paused, streamVars, failure, stop_from, announce>>
    /\ UNCHANGED <<routerVars, timerVars>>

\* listen has returned: its locals are gone
ListenReturned ==
    /\ listen_now' = 0
    /\ audio_chunks' = 0
    /\ silence_start' = NoTime
    /\ speech_detected' = FALSE
    /\ interrupted' = FALSE
    /\ listen_exit' = "none"

\* whether, after a frame of this volume, a frame at or above the low
\* threshold has been received since the recorded silence start
Interrupted(volume) ==
    IF volume > SpeechLevel \/ silence_start = NoTime THEN FALSE
    ELSE interrupted \/ volume >= SilenceLevel

\* len(audio_chunks) after an append, counted up to MaxChunks
Appended(n) == IF n < MaxChunks THEN n + 1 ELSE MaxChunks

\* as listen_end, but without the resume of the finally
listen_end_no_resume(chunks) ==
    /\ UNCHANGED _paused
    /\ IF chunks = 0
       THEN /\ run_pc' = "loop_sleep"
            /\ failure' = "recognition"
       ELSE /\ run_pc' = "listen_stt"
            /\ UNCHANGED failure

(***************************************************************************)
(* listen after its capture loop (main.py:222-237): resume in the finally, *)
(* "" when no chunk was collected, else await stt.transcribe.              *)
(***************************************************************************)
listen_end(chunks) ==
    /\ _paused' = FALSE
    /\ IF chunks = 0
       THEN /\ run_pc' = "loop_sleep"
            /\ failure' = "recognition"
       ELSE /\ run_pc' = "listen_stt"
            /\ UNCHANGED failure

\* as listen_step, but stopping at the first quiet chunk after speech
listen_step_no_threshold(volume, dt) ==
    /\ run_pc = "listen"
    /\ listen_now < timeout
    /\ ~ReadBlocks
    /\ dt \in 0..1
    /\ listen_now' = listen_now + dt
    /\ \E r \in _read_audio_chunk :
         /\ pipe' = r.pipe
         /\ stdout_buffer' = r.buffer
         /\ IF r.chunk = NoChunk
            THEN /\ volume = 100
                 /\ UNCHANGED <<audio_chunks, speech_detected, silence_start,
                                interrupted, fed, wake, listen_exit, run_pc,
                                _paused, failure>>
            ELSE /\ audio_chunks' = Appended(audio_chunks)
                 /\ fed' = r.chunk
                 /\ UNCHANGED wake
                 /\ interrupted' = Interrupted(volume)
                 /\ IF volume > SpeechLevel
                    THEN /\ speech_detected' = TRUE
                         /\ silence_start' = NoTime
                         /\ UNCHANGED <<listen_exit, run_pc, _paused,
                                        failure>>
                    ELSE IF volume < SilenceLevel /\ speech_detected
                    THEN /\ listen_exit' = "break"
                         /\ listen_end(Appended(audio_chunks))
                         /\ UNCHANGED <<speech_detected, silence_start>>
                    ELSE UNCHANGED <<speech_detected, silence_start,
                                     listen_exit, run_pc, _paused, failure>>
    /\ UNCHANGED <<tts, model, wakeword_running, called, _running, speak_ret,
                   _arecord_proc, arecord_procs, speak_log, spoken, pq_locals,
                   stop_from, announce>>
    /\ UNCHANGED <<routerVars, timerVars>>

\* as listen_step, but the capture loop goes on past the timeout
listen_step_no_timeout(volume, dt) ==
    /\ run_pc = "listen"
    /\ listen_now < timeout + 2
    /\ ~ReadBlocks
    /\ dt \in 0..1
    /\ listen_now' = listen_now + dt
    /\ \E r \in _read_audio_chunk :
         /\ pipe' = r.pipe
         /\ stdout_buffer' = r.buffer
         /\ IF r.chunk = NoChunk
            THEN /\ volume = 100
                 /\ UNCHANGED <<audio_chunks, speech_detected, silence_start,
                                interrupted, fed, wake, listen_exit, run_pc,
                                _paused, failure>>
            ELSE /\ audio_chunks' = Appended(audio_chunks)
                 /\ fed' = r.chunk
                 /\ UNCHANGED wake
                 /\ interrupted' = Interrupted(volume)
                 /\ IF volume > SpeechLevel
                    THEN /\ speech_detected' = TRUE
                         /\ silence_start' = NoTime
                         /\ UNCHANGED <<listen_exit, run_pc, _paused,
                                        failure>>
                    ELSE IF volume < SilenceLevel /\ silence_start = NoTime
                    THEN /\ silence_start' = listen_now + dt
                         /\ UNCHANGED <<speech_detected, listen_exit, run_pc,
                                        _paused, failure>>
                    ELSE IF /\ volume < SilenceLevel
                            /\ speech_detected
                            /\ Appended(audio_chunks) > min_speech_chunks
                            /\ (listen_now + dt) - silence_start
                                  > silence_threshold
                    THEN /\ listen_exit' = "break"
                         /\ listen_end(Appended(audio_chunks))
                         /\ UNCHANGED <<speech_detected, silence_start>>
                    ELSE UNCHANGED <<speech_detected, silence_start,
                                     listen_exit, run_pc, _paused, failure>>
    /\ UNCHANGED <<tts, model, wakeword_running, called, _running, speak_ret,
                   _arecord_proc, arecord_procs, speak_log, spoken, pq_locals,
                   stop_from, announce>>
    /\ UNCHANGED <<routerVars, timerVars>>

(***************************************************************************)
(* One turn of the capture loop of listen (main.py:199-221): read a chunk, *)
(* append it, update the voice activity locals from its volume, break on   *)
(* enough silence after speech, else sleep. dt is the time the turn takes  *)
(* up to the reading of the clock.                                         *)
(***************************************************************************)
listen_step(volume, dt) ==
    /\ run_pc = "listen"
    /\ listen_now < timeout
    /\ ~ReadBlocks
    /\ dt \in 0..1
    /\ listen_now' = listen_now + dt
    /\ \E r \in _read_audio_chunk :
         /\ pipe' = r.pipe
         /\ stdout_buffer' = r.buffer
         /\ IF r.chunk = NoChunk
            THEN /\ volume = 100
                 /\ UNCHANGED <<audio_chunks, speech_detected, silence_start,
                                interrupted, fed, wake, listen_exit, run_pc,
                                _paused, failure>>
            ELSE /\ audio_chunks' = Appended(audio_chunks)
                 /\ fed' = r.chunk
                 /\ UNCHANGED wake
                 /\ interrupted' = Interrupted(volume)
                 /\ IF volume > SpeechLevel
                    THEN /\ speech_detected' = TRUE
                         /\ silence_start' = NoTime
                         /\ UNCHANGED <<listen_exit, run_pc, _paused,
                                        failure>>
                    ELSE IF volume < SilenceLevel /\ silence_start = NoTime
                    THEN /\ silence_start' = listen_now + dt
                         /\ UNCHANGED <<speech_detected, listen_exit, run_pc,
                                        _paused, failure>>
                    ELSE IF /\ volume < SilenceLevel
                            /\ speech_detected
                            /\ Appended(audio_chunks) > min_speech_chunks
                            /\ (listen_now + dt) - silence_start
                                  > silence_threshold
                    THEN /\ listen_exit' = "break"
                         /\ listen_end(Appended(audio_chunks))
                         /\ UNCHANGED <<speech_detected, silence_start>>
                    ELSE UNCHANGED <<speech_detected, silence_start,
                                     listen_exit, run_pc, _paused, failure>>
    /\ UNCHANGED <<tts, model, wakeword_running, called, _running, speak_ret,
                   _arecord_proc, arecord_procs, speak_log, spoken, pq_locals,
                   stop_from, announce>>
    /\ UNCHANGED <<routerVars, timerVars>>

(***************************************************************************)
(* A turn of the capture loop raises while it reads or measures the chunk  *)
(* (main.py:201-207): the finally resumes the detector (main.py:222-224),  *)
(* the exception leaves listen and reaches the handler of the loop         *)
(* (main.py:337-341).                                                      *)
(***************************************************************************)
listen_raises ==
    /\ run_pc = "listen"
    /\ listen_now < timeout
    /\ _arecord_proc # "None"
    /\ _paused' = FALSE
    /\ ListenReturned
    /\ run_pc' = "recover_sleep2"
    /\ failure' = "capture"
    /\ UNCHANGED <<tts, model, wakeword_running, called, _running, speak_ret,
                   streamVars, speak_log, spoken, pq_locals, fed, wake,
                   stop_from, announce>>
    /\ UNCHANGED <<routerVars, timerVars>>

\* the condition of the capture loop is false: the timeout has elapsed
listen_timeout ==
    /\ run_pc = "listen"
    /\ listen_now >= timeout
    /\ listen_exit' = "timeout"
    /\ listen_end(audio_chunks)
    /\ UNCHANGED <<tts, model, wakeword_running, called, _running, speak_ret,
                   streamVars, listenVars, speak_log, spoken, pq_locals, fed,
                   wake, stop_from, announce>>
    /\ UNCHANGED <<routerVars, timerVars>>

\* how stt.transcribe ends: a text, the empty text, or an exception
SttOutcomes == {"text", "empty", "raised"}

\* as stt_returns, but run hands whatever listen returned to process_query
stt_returns_routes_any(outcome) ==
    /\ run_pc = "listen_stt"
    /\ ListenReturned
    /\ IF _running
       THEN /\ run_pc' = "pq_process"
            /\ failure' = IF outcome = "text" THEN failure ELSE "recognition"
       ELSE /\ run_pc' = "loop_sleep"
            /\ failure' = IF outcome = "text" THEN failure ELSE "recognition"
    /\ UNCHANGED <<tts, model, wakeword_running, called, _running, speak_ret,
                   _paused, streamVars, speak_log, spoken, pq_locals, fed,
                   wake, stop_from, announce>>
    /\ UNCHANGED <<routerVars, timerVars>>

(***************************************************************************)
(* stt.transcribe returns or raises (main.py:236-241), listen returns, and *)
(* run hands a text that is not empty to process_query when still running  *)
(* (main.py:326-328, 243-252), which awaits orchestrator.process.          *)
(***************************************************************************)
stt_returns(outcome) ==
    /\ run_pc = "listen_stt"
    /\ ListenReturned
    /\ IF outcome = "text" /\ _running
       THEN /\ run_pc' = "pq_process"
            /\ UNCHANGED failure
       ELSE /\ run_pc' = "loop_sleep"
            /\ failure' = IF outcome = "text" THEN failure ELSE "recognition"
    /\ UNCHANGED <<tts, model, wakeword_running, called, _running, speak_ret,
                   _paused, streamVars, speak_log, spoken, pq_locals, fed,
                   wake, stop_from, announce>>
    /\ UNCHANGED <<routerVars, timerVars>>

\* how orchestrator.process ends: a result, the error result the router
\* makes of a skill's exception, or an exception of the router itself
ProcessOutcomes == {"result", "error_result", "raised"}

\* what the command does to the timer skill, when routed to it
TimerCommands == {"none", "set", "cancel"}

\* the texts of a result: response, and speak when it is not None
ResponseTexts == {"response"}
SpeakTexts == {"", "speak"}

\* the results orchestrator.process returns, by their two texts: a skill
\* gives a speak text or leaves it None; SkillResult.error and the results
\* of the timer skill leave it None (skill.py:28-31, timer.py:127-131)
Results(outcome, timer_command) ==
    [response : ResponseTexts,
     speak : IF outcome = "result" /\ timer_command = "none"
             THEN SpeakTexts \cup {NoText} ELSE {NoText}]

\* as speak_text, but always the response text
speak_text_response_only(r) == r.response

\* process_query: speak_text = result.speak if result.speak else
\* result.response (main.py:260); None and "" are both false
speak_text(r) ==
    IF r.speak # NoText /\ r.speak # "" THEN r.speak ELSE r.response

\* as pq_returns, but process_query returns silently when the router raises
pq_returns_silent(outcome, timer_command) ==
    /\ run_pc = "pq_process"
    /\ timer_command = "none"
    /\ UNCHANGED timerVars
    /\ IF outcome = "raised"
       THEN /\ run_pc' = "loop_sleep"
            /\ UNCHANGED <<speak_ret, spoken, pq_locals>>
       ELSE /\ run_pc' = "speak"
            /\ speak_ret' = "result"
            /\ spoken' = <<"result">>
            /\ UNCHANGED pq_locals
    /\ failure' = IF outcome = "result" THEN failure ELSE "skill"
    /\ UNCHANGED <<tts, model, wakeword_running, called, _running, _paused,
                   streamVars, listenVars, speak_log, fed, wake, listen_exit,
                   stop_from, announce>>
    /\ UNCHANGED routerVars

(***************************************************************************)
(* orchestrator.process returns or raises (main.py:251-264): process_query *)
(* calls speak with speak_text, the text of the result, or with the        *)
(* apology in its handler. A command routed to the timer skill has set a   *)
(* timer of one second or cancelled the timers.                            *)
(***************************************************************************)
pq_returns(outcome, timer_command) ==
    /\ run_pc = "pq_process"
    /\ IF timer_command = "none"
       THEN UNCHANGED timerVars
       ELSE /\ outcome = "result"
            /\ timer_command = "set" => Len(countdown) < MaxCoordTimers
            /\ timer_execute(timer_command, 1)
    /\ run_pc' = "speak"
    /\ speak_ret' = IF outcome = "raised" THEN "apology" ELSE "result"
    /\ spoken' = IF outcome = "raised" THEN <<"apology">> ELSE <<"result">>
    /\ IF outcome = "raised"
       THEN pq_locals' = NoLocals
       ELSE \E r \in Results(outcome, timer_command) :
               pq_locals' = [result |-> r, speak_text |-> speak_text(r)]
    /\ failure' = IF outcome = "result" THEN failure ELSE "skill"
    /\ UNCHANGED <<tts, model, wakeword_running, called, _running, _paused,
                   streamVars, listenVars, speak_log, fed, wake, listen_exit,
                   stop_from, announce>>
    /\ UNCHANGED routerVars

(***************************************************************************)
(* The handler of the loop (main.py:337-349): after two seconds stop       *)
(* arecord, after one more start it again; an exception there is passed    *)
(* over. Then the loop goes on.                                            *)
(***************************************************************************)
recover_stop ==
    /\ run_pc = "recover_sleep2"
    /\ _stop_arecord
    /\ run_pc' = "recover_sleep1"
    /\ UNCHANGED <<tts, model, wakeword_running, called, _running, speak_ret,
                   _paused, listenVars, speak_log, spoken, pq_locals, fed,
                   wake, listen_exit, failure, stop_from, announce>>
    /\ UNCHANGED <<routerVars, timerVars>>

recover_start(popen_raises) ==
    /\ run_pc = "recover_sleep1"
    /\ IF popen_raises THEN UNCHANGED streamVars ELSE _start_arecord
    /\ run_pc' = "loop"
    /\ UNCHANGED <<tts, model, wakeword_running, called, _running, speak_ret,
                   _paused, listenVars, speak_log, spoken, pq_locals, fed,
                   wake, listen_exit, failure, stop_from, announce>>
    /\ UNCHANGED <<routerVars, timerVars>>

\* as shutdown, but leaving the capture process attached
shutdown_no_stop ==
    /\ run_pc = "shutdown"
    /\ _running' = FALSE
    /\ run_pc' = "stopped"
    /\ UNCHANGED <<tts, model, wakeword_running, called, speak_ret, _paused,
                   streamVars, listenVars, speak_log, spoken, pq_locals, fed,
                   wake, listen_exit, failure, stop_from, announce>>
    /\ UNCHANGED <<routerVars, timerVars>>

(***************************************************************************)
(* OllieAssistant.shutdown (main.py:353-359), called when run leaves its   *)
(* loop and again by async_main (main.py:351, 381): clear _running, and    *)
(* wakeword.stop() stops arecord (wakeword_oww.py:195-198). Neither it nor *)
(* stop() suspends, so both calls end in this step.                        *)
(***************************************************************************)
shutdown ==
    /\ run_pc = "shutdown"
    /\ _running' = FALSE
    /\ stop
    /\ run_pc' = "stopped"
    /\ UNCHANGED <<tts, model, called, speak_ret, _paused, listenVars,
                   speak_log, spoken, pq_locals, fed, wake, listen_exit,
                   failure, stop_from, announce>>
    /\ UNCHANGED <<routerVars, timerVars>>

(***************************************************************************)
(* handle_signal (main.py:367-368), run by the event loop on SIGINT or     *)
(* SIGTERM while the main flow is suspended: in the loop, or in the        *)
(* greeting before it, where _running is not set yet (main.py:298-300). A  *)
(* signal that finds the flag cleared by an earlier one changes nothing.   *)
(***************************************************************************)
handle_signal ==
    /\ run_pc \in AwaitPoints
    /\ _running \/ (speak_ret = "greet" /\ stop_from = "none")
    /\ _running' = FALSE
    /\ stop_from' = run_pc
    /\ UNCHANGED <<tts, model, wakeword_running, called, run_pc, speak_ret,
                   _paused, streamVars, listenVars, speak_log, spoken,
                   pq_locals, fed, wake, listen_exit, failure, announce>>
    /\ UNCHANGED <<routerVars, timerVars>>

(***************************************************************************)
(* The arecord process (wakeword_oww.py:85-96) writes a frame to the pipe, *)
(* which holds MaxPipe frames; a frame written during a speak call is the  *)
(* assistant's own speech.                                                 *)
(***************************************************************************)
arecord_writes ==
    /\ _arecord_proc = "alive"
    /\ Len(pipe) < MaxPipe
    /\ pipe' = Append(pipe, IF run_pc \in Speaking THEN "stale" ELSE "fresh")
    /\ UNCHANGED <<tts, model, wakeword_running, called, _running, run_pc,
                   speak_ret, _paused, _arecord_proc, arecord_procs,
                   stdout_buffer, listenVars, speak_log, spoken, pq_locals,
                   fed, wake, listen_exit, failure, stop_from, announce>>
    /\ UNCHANGED <<routerVars, timerVars>>

\* the arecord process dies; what it wrote stays readable
arecord_dies ==
    /\ _arecord_proc = "alive"
    /\ _arecord_proc' = "dead"
    /\ arecord_procs' = arecord_procs - 1
    /\ UNCHANGED <<tts, model, wakeword_running, called, _running, run_pc,
                   speak_ret, _paused, pipe, stdout_buffer, listenVars,
                   speak_log, spoken, pq_locals, fed, wake, listen_exit,
                   failure, stop_from, announce>>
    /\ UNCHANGED <<routerVars, timerVars>>

\* the event loop is free to run a task: the main flow is suspended in an
\* await, or has ended
LoopRuns == run_pc \in AwaitPoints \cup {"stopped", "closed"}

\* the first step of a countdown task, run by the assistant's event loop
task_start(k) == LoopRuns /\ countdown_start(k)

\* the sleep of a countdown task elapses while the assistant runs
task_sleep_elapsed(k) == LoopRuns /\ sleep_elapsed(k)

\* a countdown task resumes after its sleep and calls _on_timer
task_countdown(k) == LoopRuns /\ _timer_countdown(k)

\* a countdown task is resumed with CancelledError
task_cancel_delivered(k) == LoopRuns /\ cancel_delivered(k)

(***************************************************************************)
(* The event loop runs the first step of a task _on_timer created          *)
(* (main.py:146): tts.speak starts Piper and the playback (tts.py:62-104), *)
(* without pausing the detector.                                           *)
(***************************************************************************)
announce_start ==
    /\ LoopRuns
    /\ announce.created > 0
    /\ announce' = [created |-> announce.created - 1,
                    playing |-> announce.playing + 1]
    /\ UNCHANGED flowVars
    /\ UNCHANGED <<routerVars, timerVars>>

\* the playback of an announcement ends, and its task with it
announce_done ==
    /\ LoopRuns
    /\ announce.playing > 0
    /\ announce' = [announce EXCEPT !.playing = @ - 1]
    /\ UNCHANGED flowVars
    /\ UNCHANGED <<routerVars, timerVars>>

(***************************************************************************)
(* asyncio.run (main.py:387) ends: async_main has returned, and the        *)
(* runner cancels every task that is left before it closes the loop.       *)
(***************************************************************************)
loop_close ==
    /\ run_pc = "stopped"
    /\ run_pc' = "closed"
    /\ countdown' = [k \in 1..Len(countdown) |-> TaskCancel(countdown[k])]
    /\ announce' = [created |-> 0, playing |-> 0]
    /\ timer_result' = NoTimerResult
    /\ UNCHANGED <<timers, next_id, on_timer_complete, completed, cancelled>>
    /\ UNCHANGED <<tts, model, wakeword_running, called, _running, speak_ret,
                   _paused, streamVars, listenVars, speak_log, spoken,
                   pq_locals, fed, wake, listen_exit, failure, stop_from>>
    /\ UNCHANGED routerVars

(***************************************************************************)
(* The detector and shutdown as a caller may use them: start, stop,        *)
(* shutdown, pause and resume are called one after the other, in any       *)
(* order, on a detector whose model is loaded or None, while arecord       *)
(* writes or dies. called holds the calls in pairs, a first call and then  *)
(* a second.                                                               *)
(***************************************************************************)
Call(c) == IF Len(called) = 1 THEN Append(called, c) ELSE <<c>>

\* OpenWakeWordDetector.__init__ and load (wakeword_oww.py:40-78), for an
\* assistant that runs its loop or not
DetectorInit ==
    /\ tts = FALSE
    /\ _running \in BOOLEAN
    /\ run_pc = "new"
    /\ speak_ret = "none"
    /\ announce = [created |-> 0, playing |-> 0]
    /\ listen_now = 0
    /\ audio_chunks = 0
    /\ silence_start = NoTime
    /\ speech_detected = FALSE
    /\ interrupted = FALSE
    /\ model \in BOOLEAN
    /\ _paused = FALSE
    /\ wakeword_running = FALSE
    /\ _arecord_proc = "None"
    /\ pipe = <<>>
    /\ stdout_buffer = <<>>
    /\ arecord_procs = 0
    /\ speak_log = <<>>
    /\ spoken = <<>>
    /\ pq_locals = NoLocals
    /\ called = <<>>
    /\ fed = "none"
    /\ wake = NoWake
    /\ listen_exit = "none"
    /\ failure = "none"
    /\ stop_from = "none"

\* what no call of the detector touches
CallerVars == <<tts, model, run_pc, speak_ret, listenVars, speak_log, spoken,
                pq_locals, fed, wake, listen_exit, failure, stop_from, announce>>

\* await wakeword.start()
call_start(popen_raises) ==
    /\ run_pc = "new"
    /\ start(popen_raises)
    /\ called' = Call(IF popen_raises /\ model /\ _arecord_proc = "None"
                      THEN "start_raised" ELSE "start")
    /\ UNCHANGED <<_running, _paused, CallerVars>>
    /\ UNCHANGED <<routerVars, timerVars>>

\* await wakeword.stop()
call_stop ==
    /\ run_pc = "new"
    /\ stop
    /\ called' = Call("stop")
    /\ UNCHANGED <<_running, _paused, CallerVars>>
    /\ UNCHANGED <<routerVars, timerVars>>

\* await assistant.shutdown() (main.py:353-359)
call_shutdown ==
    /\ run_pc = "new"
    /\ _running' = FALSE
    /\ stop
    /\ called' = Call("shutdown")
    /\ UNCHANGED <<_paused, CallerVars>>
    /\ UNCHANGED <<routerVars, timerVars>>

\* wakeword.pause() or wakeword.resume() (wakeword_oww.py:153-163)
call_pause(paused) ==
    /\ run_pc = "new"
    /\ _paused' = paused
    /\ called' = Call(IF paused THEN "pause" ELSE "resume")
    /\ UNCHANGED <<_running, wakeword_running, streamVars, CallerVars>>
    /\ UNCHANGED <<routerVars, timerVars>>

(***************************************************************************)
(* The specifications.                                                     *)
(***************************************************************************)
\* the router, with the timer skill as the assistant constructs it
Init == RouterInit /\ TimerInit /\ on_timer_complete /\ AssistantNew

Next == RouterNext

Spec == Init /\ [][Next]_vars

\* the router on one query, with the order in which the match tasks return
\* recorded
GatherInit ==
    /\ RouterNew /\ done_order = <<>>
    /\ TimerInit /\ on_timer_complete /\ AssistantNew

GatherNext ==
    \/ setup_register
    \/ process_begin(<<"a">>)
    \/ \E i \in 1..Len(match_task) : match_start(i)
    \/ \E i \in 1..Len(match_task) : \E m \in MatchReturns(skills[i]) : match_return(i, m)
    \/ \E i \in 1..Len(match_task) : match_raise(i)
    \/ process_select
    \/ \E ok \in BOOLEAN : execute_return(ok)
    \/ execute_raise

GatherSpec == GatherInit /\ [][GatherNext]_vars

\* the router after setup, for the part of the registry around the
\* general-question skill
SetupInit ==
    /\ RouterWith(SetupAroundClaude) /\ done_order = NotRecorded
    /\ TimerInit /\ on_timer_complete /\ AssistantNew

SetupNext ==
    \/ \E q \in Queries : process_begin(q)
    \/ \E i \in 1..Len(match_task) : match_start(i)
    \/ \E i \in 1..Len(match_task) : \E m \in MatchReturns(skills[i]) \cup skill_match(skills[i], query) : match_return(i, m)
    \/ \E i \in 1..Len(match_task) : match_raise(i)
    \/ process_select
    \/ \E ok \in BOOLEAN : execute_return(ok)
    \/ execute_raise

SetupSpec == SetupInit /\ [][SetupNext]_vars

\* the jokes skill under a sequence of requests
JokesNext ==
    \E family_friendly_only \in BOOLEAN, joke_index \in 1..Len(JOKES) :
        JokesSkill_execute(family_friendly_only, joke_index)

JokesSpec == Init /\ [][JokesNext]_vars

\* the transcription-based wake detector under the calls of a caller
WakeWordNext ==
    \/ \E imported \in BOOLEAN : WakeWordDetector_load(imported)
    \/ \E audio_chunk \in AudioChunks, heard \in BOOLEAN :
           WakeWordDetector_process_audio(audio_chunk, heard)
    \/ WakeWordDetector_pause
    \/ WakeWordDetector_resume
    \/ WakeWordDetector_reset

WakeWordSpec == Init /\ [][WakeWordNext]_vars

\* the timer skill, with or without a completion callback
TimerSpecInit == RouterInit /\ TimerInit /\ AssistantNew

TimerSpecNext == TimerNext

TimerSpec == TimerSpecInit /\ [][TimerSpecNext]_vars

\* the event loop runs every task that is ready to run, and time passes
TimerFairness ==
    /\ WF_vars(Tick)
    /\ \A k \in 1..MaxTimers :
         /\ WF_vars(k \in 1..Len(countdown) /\ countdown_start(k))
         /\ WF_vars(k \in 1..Len(countdown) /\ sleep_elapsed(k))
         /\ WF_vars(k \in 1..Len(countdown) /\ _timer_countdown(k))
         /\ WF_vars(k \in 1..Len(countdown) /\ cancel_delivered(k))

\* the timer skill as the assistant constructs it, with its callback
TimerLiveInit == TimerSpecInit /\ on_timer_complete

TimerLiveSpec == TimerLiveInit /\ [][TimerSpecNext]_vars /\ TimerFairness

\* the coordinator: the voice loop, with commands that set no timer
CoordSpecInit == RouterInit /\ TimerInit /\ on_timer_complete /\ CoordInit

CoordNext ==
    \/ speak_begin
    \/ \E outcome \in TtsOutcomes : tts_returns(outcome)
    \/ \E flush_raises \in BOOLEAN : decay_elapsed(flush_raises)
    \/ \E health_check_due \in BOOLEAN : loop_top(health_check_due)
    \/ \E popen_raises \in BOOLEAN : health_restart(popen_raises)
    \/ \E score_above \in BOOLEAN : read_chunk(score_above)
    \/ read_raises
    \/ idle_sleep
    \/ loop_sleep
    \/ \E volume \in Volumes, dt \in 0..1 : listen_step(volume, dt)
    \/ listen_raises
    \/ listen_timeout
    \/ \E outcome \in SttOutcomes : stt_returns(outcome)
    \/ \E outcome \in ProcessOutcomes : pq_returns(outcome, "none")
    \/ recover_stop
    \/ \E popen_raises \in BOOLEAN : recover_start(popen_raises)
    \/ shutdown
    \/ handle_signal
    \/ arecord_writes
    \/ arecord_dies

CoordSpec == CoordSpecInit /\ [][CoordNext]_vars

\* the assistant: the voice loop with the timer skill, the countdown tasks,
\* the announcements and the end of the event loop
AssistantNext ==
    \/ speak_begin
    \/ \E outcome \in TtsOutcomes : tts_returns(outcome)
    \/ \E flush_raises \in BOOLEAN : decay_elapsed(flush_raises)
    \/ \E health_check_due \in BOOLEAN : loop_top(health_check_due)
    \/ \E popen_raises \in BOOLEAN : health_restart(popen_raises)
    \/ \E score_above \in BOOLEAN : read_chunk(score_above)
    \/ read_raises
    \/ idle_sleep
    \/ loop_sleep
    \/ \E volume \in Volumes, dt \in 0..1 : listen_step(volume, dt)
    \/ listen_raises
    \/ listen_timeout
    \/ \E outcome \in SttOutcomes : stt_returns(outcome)
    \/ \E outcome \in ProcessOutcomes, c \in TimerCommands :
          pq_returns(outcome, c)
    \/ recover_stop
    \/ \E popen_raises \in BOOLEAN : recover_start(popen_raises)
    \/ shutdown
    \/ handle_signal
    \/ arecord_writes
    \/ arecord_dies
    \/ \E k \in 1..Len(countdown) : task_start(k)
    \/ \E k \in 1..Len(countdown) : task_sleep_elapsed(k)
    \/ \E k \in 1..Len(countdown) : task_countdown(k)
    \/ \E k \in 1..Len(countdown) : task_cancel_delivered(k)
    \/ Tick
    \/ announce_start
    \/ announce_done
    \/ loop_close

AssistantSpec == CoordSpecInit /\ [][AssistantNext]_vars

\* the detector under the calls of a caller
DetectorSpecInit == RouterInit /\ TimerInit /\ on_timer_complete /\ DetectorInit

DetectorNext ==
    \/ \E popen_raises \in BOOLEAN : call_start(popen_raises)
    \/ call_stop
    \/ call_shutdown
    \/ \E paused \in BOOLEAN : call_pause(paused)
    \/ arecord_writes
    \/ arecord_dies

DetectorSpec == DetectorSpecInit /\ [][DetectorNext]_vars

(***************************************************************************)
(* What the scheduling of the voice loop guarantees: every step of the     *)
(* main flow is taken once it can be (an awaited call or sleep ends, the   *)
(* event loop resumes the flow), a running arecord keeps writing, and time *)
(* passes in the capture loop. Nothing is assumed of the signals, of the   *)
(* death of arecord, or of which outcome a call has.                       *)
(***************************************************************************)
CoordFairness ==
    /\ WF_vars(speak_begin)
    /\ WF_vars(\E outcome \in TtsOutcomes : tts_returns(outcome))
    /\ WF_vars(\E flush_raises \in BOOLEAN : decay_elapsed(flush_raises))
    /\ WF_vars(\E health_check_due \in BOOLEAN : loop_top(health_check_due))
    /\ WF_vars(\E popen_raises \in BOOLEAN : health_restart(popen_raises))
    /\ WF_vars(\E score_above \in BOOLEAN : read_chunk(score_above))
    /\ WF_vars(idle_sleep)
    /\ WF_vars(loop_sleep)
    /\ SF_vars(\E volume \in Volumes : listen_step(volume, 1))
    /\ WF_vars(listen_timeout)
    /\ WF_vars(\E outcome \in SttOutcomes : stt_returns(outcome))
    /\ WF_vars(\E outcome \in ProcessOutcomes : pq_returns(outcome, "none"))
    /\ WF_vars(recover_stop)
    /\ WF_vars(\E popen_raises \in BOOLEAN : recover_start(popen_raises))
    /\ WF_vars(shutdown)
    /\ WF_vars(arecord_writes)

CoordLiveSpec == CoordSpecInit /\ [][CoordNext]_vars /\ CoordFairness

(***************************************************************************)
(*                        Properties of the router                         *)
(***************************************************************************)
\* the positions of the skills whose match ran in the current process call
Matched == 1..Len(match_task)

\* the confidence the skill at position i returned
ConfidenceAt(i) == matchOut[skills[i]].confidence

\* the greatest confidence returned in the current process call
MaxConfidence ==
    CHOOSE c \in SkillConfidence :
        /\ \E i \in Matched : ConfidenceAt(i) = c
        /\ \A i \in Matched : ConfidenceAt(i) <= c

\* the first position, in registration order, with the greatest confidence
EarliestBest ==
    CHOOSE i \in Matched :
        /\ ConfidenceAt(i) = MaxConfidence
        /\ \A j \in 1..(i - 1) : ConfidenceAt(j) < MaxConfidence

\* process went past the gather on a query that is not empty
Routed == pc \in {"execute", "returned"} /\ Len(query) > 0

\* C1: when process routes a non-empty query and some skill returned a
\* confidence above NO_MATCH, it executes exactly one skill: the one with the
\* lowest registration index among those with the greatest confidence.
C1_EarliestBestExecuted ==
    (Routed /\ \E i \in Matched : ConfidenceAt(i) > NO_MATCH)
        => /\ Len(execCalls) = 1
           /\ execCalls[1].skill = skills[EarliestBest]

\* C1 witness: two skills tie on the greatest confidence, HIGH, and the
\* earlier one is the one executed
C1_Witness ==
    /\ pc = "execute"
    /\ \E i, j \in Matched :
          /\ i < j
          /\ ConfidenceAt(i) = HIGH /\ ConfidenceAt(j) = HIGH
          /\ MaxConfidence = HIGH
          /\ Len(execCalls) = 1
          /\ execCalls[1].skill = skills[i]

\* the text holds nothing but whitespace (or nothing at all)
OnlyWhitespace(q) == \A i \in 1..Len(q) : q[i] \in Whitespace

\* C2: a process call with an empty or whitespace-only query returns the
\* fixed error result, success = false, and calls no skill's match or execute.
C2_EmptyQueryRejected ==
    (pc # "idle" /\ OnlyWhitespace(query_arg))
        => /\ pc = "returned"
           /\ result = DidntCatch
           /\ result.success = FALSE
           /\ \A s \in SkillObjects : matchCalls[s] = <<>>
           /\ execCalls = <<>>

\* C2 witness: a whitespace-only query was rejected with skills registered
C2_Witness ==
    /\ pc = "returned"
    /\ Len(query_arg) > 0 /\ OnlyWhitespace(query_arg)
    /\ Len(skills) > 1
    /\ result = DidntCatch

\* C3: when every registered skill returns NO_MATCH for a non-empty query,
\* process returns the fallback result, success = true, without any execute;
\* and execute is never called on a skill whose match returned NO_MATCH.
C3_NoMatchNeverExecuted ==
    /\ (Routed /\ \A i \in Matched : ConfidenceAt(i) = NO_MATCH)
          => /\ pc = "returned"
             /\ result = _fallback_response(query)
             /\ result.success = TRUE
             /\ execCalls = <<>>
    /\ \A n \in 1..Len(execCalls) :
          matchOut[execCalls[n].skill].confidence # NO_MATCH

\* C3 witness: the fallback was returned with every skill answering NO_MATCH
C3_Witness ==
    /\ Routed /\ Len(skills) > 1 /\ Len(match_task) > 1
    /\ \A i \in Matched : ConfidenceAt(i) = NO_MATCH
    /\ result = _fallback_response(query)

\* C4: when the selected skill's execute raises, process does not raise: it
\* returns a result with success = false that names the selected skill, and
\* that execute call is the only one of the routing pass.
C4_ExecuteErrorContained ==
    execOutcome = "raised"
        => /\ pc = "returned"
           /\ result.success = FALSE
           /\ result = TroubleWith(skills[EarliestBest])
           /\ Len(execCalls) = 1
           /\ execCalls[1].skill = result.skill

\* C4 witness: the execute of a skill that beat another matching skill raised
C4_Witness ==
    /\ execOutcome = "raised"
    /\ pc = "returned"
    /\ \E i \in Matched :
          /\ i # EarliestBest
          /\ ConfidenceAt(i) > NO_MATCH

\* C5: the entities handed to a skill's execute are the ones that skill's own
\* match returned in the same process call, on the same stripped query.
C5_ExtractedFromOwnMatch ==
    \A n \in 1..Len(execCalls) :
        LET call == execCalls[n]
        IN  /\ matchOut[call.skill] # None
            /\ matchOut[call.skill].skill = call.skill
            /\ call.extracted = matchOut[call.skill].extracted
            /\ matchCalls[call.skill] = <<call.query>>
            /\ call.query = query

\* C5 witness: the executed skill extracted other entities than another
\* matching skill of the same pass did
C5_Witness ==
    /\ Len(execCalls) = 1
    /\ \E i \in Matched :
          /\ ConfidenceAt(i) > NO_MATCH
          /\ matchOut[skills[i]].extracted # execCalls[1].extracted
          /\ i < EarliestBest

\* C6: within one process call match is invoked on every registered skill,
\* and no execute begins before every one of those match calls has returned.
C6_MatchBarrier ==
    /\ pc \in {"gather", "execute"} => Len(match_task) = Len(skills)
    /\ execCalls # <<>>
          => \A i \in Matched :
                /\ match_task[i].st = "done"
                /\ Len(matchCalls[skills[i]]) = 1
                /\ matchOut[skills[i]] # None

\* C6 witness: an execute began after three match calls returned
C6_Witness ==
    /\ pc = "execute"
    /\ Len(match_task) > 2
    /\ execCalls # <<>>

(***************************************************************************)
(*                      Properties of the timer skill                      *)
(***************************************************************************)
\* the countdown tasks, that is the timers, ever created
Created == 1..Len(countdown)

\* the timer of task k is in the active map
Active(k) == \E i \in 1..Len(timers) : timers[i].task = k

\* the timer of task k is listed under its id in the active map
IdActive(k) == countdown[k].timer.id \in TimerIds

\* C7: a timer that is set and never cancelled eventually fires; its
\* completion callback is invoked exactly once, and from that moment on the
\* timer is absent from the active map.
C7_TimerFires ==
    /\ [](\A k \in Created :
             /\ completed[k] <= 1
             /\ completed[k] = 1 => ~Active(k) /\ ~IdActive(k))
    /\ \A k \in 1..MaxTimers :
          (k \in Created /\ on_timer_complete)
              ~> (k \in Created /\ (completed[k] = 1 \/ k \in cancelled))

\* C7 witness: a timer fired, never cancelled, while a later one is running
C7_Witness ==
    /\ on_timer_complete
    /\ \E k \in Created :
          /\ completed[k] = 1
          /\ k \notin cancelled
          /\ countdown[k].st = "done"
          /\ \E j \in Created : j > k /\ Active(j)

\* C8: after a cancel-all the active map is empty, and the completion
\* callback is never invoked for a timer that was in the map when it ran.
C8_CancelAllSilences ==
    /\ timer_result.response \in {"cancelled", "no_timers_to_cancel"}
          => timers = <<>>
    /\ \A k \in cancelled : completed[k] = 0 /\ ~Active(k)
    /\ \A k \in cancelled : countdown[k].st \in {"cancelling", "cancelled"}

\* C8 witness: a cancel-all took two timers, one of them already sleeping
C8_Witness ==
    /\ on_timer_complete
    /\ timer_result = TimerResult(TRUE, "cancelled", 2)
    /\ Cardinality(cancelled) = 2
    /\ \E k \in cancelled : ~countdown[k].woken

\* C9: for every timer exactly one outcome occurs, whatever the interleaving
\* of its countdown with cancel-all: the callback is invoked once, or the
\* timer is counted in a cancel-all and its callback is never invoked.
C9_FireOrCancelNotBoth ==
    \A k \in Created :
        /\ ~(completed[k] > 0 /\ k \in cancelled)
        /\ completed[k] <= 1
        /\ (on_timer_complete /\ countdown[k].st \in {"done", "cancelled"})
              => (completed[k] = 1) # (k \in cancelled)
        /\ countdown[k].st = "done" => k \notin cancelled
        /\ countdown[k].st = "cancelled" => k \in cancelled

\* C9 witness: a cancel-all ran after the sleep of a timer had elapsed and
\* before its task resumed; the task ended cancelled and never called back
C9_Witness ==
    /\ on_timer_complete
    /\ \E k \in cancelled :
          /\ countdown[k].woken
          /\ countdown[k].st = "cancelled"
          /\ completed[k] = 0

\* the id the timer of task k was given
IdOf(k) == countdown[k].timer.id

\* C10: timer ids are unique and strictly increasing in creation order over
\* any sequence of set, list, cancel-all and firings; an id is never reused,
\* and every id in the active map is smaller than next_id.
C10_IdsIncrease ==
    /\ \A j, k \in Created : j < k => IdOf(j) < IdOf(k)
    /\ \A k \in Created : IdOf(k) < next_id
    /\ \A i \in 1..Len(timers) : timers[i].id < next_id
    /\ timer_result.response = "timer_set"
          => timer_result.n = IdOf(Len(countdown))

\* C10 witness: the last timer was set after the first one was cancelled
C10_Witness ==
    /\ Len(countdown) = MaxTimers
    /\ 1 \in cancelled
    /\ timer_result.response = "timer_set"
    /\ timer_result.n = MaxTimers

\* C11: a list result holds one remaining-time entry for each timer of the
\* active map, in insertion order, so that the number of entries equals the
\* reported count, also for a timer whose deadline has passed while its
\* countdown task has not run yet.
C11_ListedEqualsCount ==
    timer_result.response = "active_timers"
        => /\ timer_result.n = Len(timers)
           /\ Len(timer_result.lines) = timer_result.n
           /\ \A i \in 1..Len(timer_result.lines) :
                 timer_result.lines[i].name = timers[i].name

\* the countdown task of a timer of the active map is still to finish and
\* no cancellation was requested for it
Pending(k) == countdown[k].st \in {"created", "sleeping", "ready"}

\* C12: under every interleaving of set, cancel-all and firings the active
\* map and the countdown tasks agree: every timer of the map has its own
\* countdown task, neither finished nor cancelled, and every countdown task
\* that is neither finished nor cancelled belongs to a timer of the map.
C12_MapAndTasksAgree ==
    /\ \A i \in 1..Len(timers) :
          /\ timers[i].task \in Created
          /\ Pending(timers[i].task)
          /\ countdown[timers[i].task].timer.id = timers[i].id
    /\ \A i, j \in 1..Len(timers) :
          timers[i].task = timers[j].task => i = j
    /\ \A k \in Created : Pending(k) => Active(k)

\* C12 witness: a cancel-all ran between two sets, the cancellation is
\* still to be delivered while the later timer's task is sleeping
C12_Witness ==
    \E k, j \in Created :
        /\ k < j
        /\ k \in cancelled
        /\ countdown[k].st = "cancelling"
        /\ Active(j)
        /\ countdown[j].st = "sleeping"

(***************************************************************************)
(*                      Properties of the coordinator                      *)
(***************************************************************************)
\* the capture loop of listen is in progress
Capturing == run_pc = "listen"

\* the synthesizer is playing: for the speak sequence or for _on_timer
Playing == run_pc = "speak_tts" \/ announce.playing > 0

\* C13: command capture and speech playback are never in progress at the
\* same time, and while either is in progress the wake detector is paused,
\* also for the speech a timer completion starts.
C13_CaptureSpeechExclusive ==
    /\ ~(Capturing /\ Playing)
    /\ (Capturing \/ Playing) => _paused

\* the steps of the speak sequence, in their order
SpeakOrder == <<"pause", "synth", "decay", "flush", "resume">>

\* the steps of a speak call that its flush ended with an exception
SpeakOrderFlushRaised == <<"pause", "synth", "decay", "flush_raised">>

IsPrefix(s, t) == Len(s) <= Len(t) /\ s = SubSeq(t, 1, Len(s))

\* C14: every execution of the speak sequence performs its steps in the
\* order pause, synthesizer call, decay wait after the synthesizer returned,
\* flush, resume: the detector is never resumed before the flush, and the
\* synthesizer is never called by it while the detector is unpaused.
C14_SpeakOrder ==
    /\ IsPrefix(speak_log, SpeakOrder) \/ speak_log = SpeakOrderFlushRaised
    /\ run_pc \in Speaking
          => _paused /\ speak_log = <<"pause", "synth">>
    /\ (speak_log # <<>> /\ run_pc \notin Speaking)
          => speak_log \in {SpeakOrder, SpeakOrderFlushRaised}
    /\ (speak_log # <<>> /\ speak_log[Len(speak_log)] = "resume")
          => speak_log = SpeakOrder

\* C14 witness: process_query spoke a result, the whole sequence ran while
\* arecord kept writing, and the flush emptied the pipe before the resume
C14_Witness ==
    /\ run_pc = "loop_sleep"
    /\ spoken = <<"result">>
    /\ speak_log = SpeakOrder
    /\ ~_paused
    /\ _arecord_proc = "alive"
    /\ pipe = <<>>

\* the main loop is running and waits for the wake word: it is about to
\* read a chunk for wake detection (or, without a wake model, to sleep)
WaitingForWake == _running /\ run_pc \in {"read", "idle_sleep"}

\* a stop was requested, or the main flow has left its loop
StopRequested ==
    stop_from # "none" \/ run_pc \in {"shutdown", "stopped", "closed"}

\* a step in which a failure occurs: a new failure is met by the main flow,
\* arecord dies, or arecord cannot be started
FailureStep ==
    \/ failure' # "none" /\ failure' # failure
    \/ speak_log' # speak_log /\ speak_log' = SpeakOrderFlushRaised
    \/ _arecord_proc = "alive" /\ _arecord_proc' = "dead"
    \/ run_pc = "health_sleep" /\ run_pc' = "recover_sleep2"
    \/ run_pc = "recover_sleep1" /\ _arecord_proc' = "None"

\* C15: after any failure inside the interaction loop (empty or failed
\* recognition, a synthesis error, a skill exception, an error while
\* flushing the audio buffer, death of the audio source) the coordinator
\* eventually waits for the wake word again with the detector resumed and
\* the main loop running - when failures do not go on for ever, and unless
\* it is asked to stop meanwhile.
C15_RecoversToWaiting ==
    <>[][~FailureStep]_vars
        => ((failure # "none")
               ~> ((WaitingForWake /\ ~_paused) \/ StopRequested))

\* C16: the capture loop of listen ends before the absolute timeout only in
\* a step where speech has been observed, more than the minimum number of
\* frames is collected and the time since the recorded silence start
\* exceeds the silence threshold; when speech was never observed the
\* capture runs until the timeout.
C16_CaptureStops ==
    /\ run_pc = "listen_stt" => listen_exit \in {"break", "timeout"}
    /\ listen_exit = "break"
          => /\ speech_detected
             /\ audio_chunks > min_speech_chunks
             /\ silence_start # NoTime
             /\ listen_now - silence_start > silence_threshold
    /\ listen_exit = "timeout" => listen_now >= timeout
    /\ (listen_exit # "none" /\ listen_now < timeout)
          => listen_exit = "break"
    /\ (listen_exit # "none" /\ ~speech_detected)
          => listen_exit = "timeout" /\ listen_now >= timeout

\* C16 witness: the capture stopped on silence after speech, before the
\* timeout
C16_Witness ==
    /\ run_pc = "listen_stt"
    /\ listen_exit = "break"
    /\ listen_now < timeout
    /\ speech_detected

\* C17: the frames produced before or during a speak call are discarded:
\* once the detector is resumed, no such frame is passed to wake detection
\* or appended to a capture window.
C17_StaleFramesDiscarded == fed # "stale"

\* process_query has accepted a command and awaits orchestrator.process
Accepted == run_pc = "pq_process"

\* process_query is calling speak, with the result's text or the apology
SpeakCalled ==
    /\ run_pc = "speak"
    /\ spoken # <<>>
    /\ speak_ret = IF spoken[Len(spoken)] = "apology"
                   THEN "apology" ELSE "result"

\* C18: for every command that is not empty and is handed to process_query,
\* the coordinator eventually calls its speak sequence with the text of the
\* routed result or with the apology, also when the router or the skill
\* raises; the step that ends the routing is always such a call, never a
\* silent return.
C18_AlwaysAnswers ==
    /\ [][(Accepted /\ ~Accepted')
             => /\ SpeakCalled'
                /\ spoken' \in {<<"result">>, <<"apology">>}]_vars
    /\ Accepted ~> SpeakCalled

\* C18 witness: the router raised, and process_query calls speak with the
\* apology
C18_Witness ==
    /\ run_pc = "speak"
    /\ spoken = <<"apology">>
    /\ speak_ret = "apology"
    /\ failure = "skill"

\* shutdown has completed
ShutDown == run_pc \in {"stopped", "closed"}

\* C19: after shutdown completes no countdown task remains pending: every
\* outstanding timer has been cancelled, and no completion callback is
\* invoked afterwards.
C19_NoTimerAfterShutdown ==
    /\ [](ShutDown => timers = <<>> /\ \A k \in Created : ~Pending(k))
    /\ [][ShutDown => completed' = completed]_vars

\* C20: after shutdown completes, from whatever state the coordinator was
\* in when it was asked to stop, no capture process remains attached to the
\* detector.
C20_CaptureReleased ==
    ShutDown => _arecord_proc = "None" /\ pipe = <<>> /\ ~_running

\* C20 witness: the stop was requested during a capture, with arecord
\* running and attached until shutdown
C20_Witness ==
    /\ run_pc = "stopped"
    /\ stop_from = "listen"
    /\ _arecord_proc = "None"
    /\ model

(***************************************************************************)
(*                 Properties of start, stop and shutdown                  *)
(***************************************************************************)
\* the step is the second call of c in a row
SecondOf(c) == Len(called) = 1 /\ called[1] = c /\ called' = <<c, c>>

\* what start, stop and shutdown can change
DetectorState ==
    <<_arecord_proc, arecord_procs, pipe, stdout_buffer, wakeword_running,
      _paused, _running>>

\* C21: start and stop are idempotent. At most one arecord process runs,
\* the one the detector holds, so a second start leaves exactly one; a
\* second start, a second stop and a second shutdown in a row change
\* nothing, and after a stop or a shutdown nothing is attached or running.
C21_StartStopIdempotent ==
    /\ [](arecord_procs = IF _arecord_proc = "alive" THEN 1 ELSE 0)
    /\ []((called = <<"start", "start">> /\ model /\ _arecord_proc # "dead")
             => _arecord_proc = "alive" /\ arecord_procs = 1)
    /\ []((called # <<>> /\ called[Len(called)] \in {"stop", "shutdown"})
             => /\ _arecord_proc = "None"
                /\ arecord_procs = 0
                /\ ~wakeword_running)
    /\ [][SecondOf("start") => UNCHANGED DetectorState]_vars
    /\ [][SecondOf("stop") => UNCHANGED DetectorState]_vars
    /\ [][SecondOf("shutdown") => UNCHANGED DetectorState]_vars

\* C21 witness: start was called twice, arecord having written meanwhile;
\* the one process runs and its frames are still to be read
C21_Witness ==
    /\ called = <<"start", "start">>
    /\ _arecord_proc = "alive"
    /\ arecord_procs = 1
    /\ pipe # <<>>

(***************************************************************************)
(*                       Properties of the main loop                       *)
(***************************************************************************)
\* the handler of the loop has caught an exception
Handling == run_pc \in {"recover_sleep2", "recover_sleep1"}

\* the main flow leaves the loop of run in this step
LeavesLoop == run_pc' = "shutdown" /\ run_pc # "shutdown"

\* C22: no exception raised inside an iteration of the main loop escapes
\* the loop. The loop is left only by its test, with the running flag
\* cleared (the greeting comes before the loop); an exception that reaches
\* the loop is in its handler, from which the loop is entered again; and
\* with the running flag set the loop goes on to its body.
C22_NoExceptionEscapes ==
    /\ [][LeavesLoop
             => \/ run_pc = "loop" /\ ~_running
                \/ speak_ret = "greet"]_vars
    /\ [][(run_pc = "loop" /\ _running /\ run_pc' # run_pc)
             => run_pc' \in {"health_sleep", "read", "idle_sleep"}]_vars
    /\ [][(Handling /\ run_pc' # run_pc)
             => run_pc' \in {"recover_sleep1", "loop"}]_vars
    /\ Handling ~> (run_pc = "loop")

\* C22 witness: an exception raised while the capture loop read a frame
\* was caught, arecord was started again and the loop goes on
C22_Witness ==
    /\ run_pc = "loop"
    /\ _running
    /\ failure = "capture"
    /\ _arecord_proc = "alive"

(***************************************************************************)
(*                   Further properties of the timer skill                 *)
(***************************************************************************)
\* no timer was cancelled and no countdown has finished
NothingCancelledOrFired ==
    cancelled = {} /\ \A k \in Created : countdown[k].st # "done"

\* C23: each set operation returns a success result and adds exactly one
\* timer to the active map, the one it created; after n set operations
\* with no cancellation and no firing the map holds exactly n timers.
C23_SetAddsOne ==
    /\ [](timer_result.response = "timer_set"
             => /\ timer_result.success
                /\ Active(Len(countdown))
                /\ timers[Len(timers)].task = Len(countdown))
    /\ [][timer_result'.response = "timer_set"
             => /\ Len(timers') = Len(timers) + 1
                /\ SubSeq(timers', 1, Len(timers)) = timers]_vars
    /\ [](NothingCancelledOrFired => Len(timers) = Len(countdown))

\* C23 witness: the last of MaxTimers set operations has returned, nothing
\* was cancelled or fired, and the map holds MaxTimers timers
C23_Witness ==
    /\ timer_result.response = "timer_set"
    /\ NothingCancelledOrFired
    /\ Len(countdown) = MaxTimers
    /\ Len(timers) = MaxTimers

\* the responses of the list operation
ListResponses == {"no_timers_running", "active_timers"}

\* C24: the list operation on an empty active map returns a success result
\* saying that no timers are running (and says so only then), and the list
\* operation never changes the active map, next_id or a countdown task,
\* whatever the state it is called in.
C24_ListChangesNothing ==
    [][timer_result'.response \in ListResponses
          => /\ timer_result'.success
             /\ timers = <<>>
                   => timer_result' = TimerResult(TRUE, "no_timers_running", 0)
             /\ timer_result'.response = "no_timers_running" => timers = <<>>
             /\ UNCHANGED <<timers, next_id, on_timer_complete, countdown,
                            completed, cancelled>>]_vars

\* C24 witness: the timers were listed on a map a cancel-all had emptied,
\* the cancellation of a countdown task being still to be delivered
C24_Witness ==
    /\ timer_result = TimerResult(TRUE, "no_timers_running", 0)
    /\ timers = <<>>
    /\ next_id > 1
    /\ \E k \in Created : countdown[k].st = "cancelling"

(***************************************************************************)
(*                      Properties of process_query                        *)
(***************************************************************************)
\* process_query calls speak for the result the router returned
SpeaksResult == run_pc = "speak" /\ speak_ret = "result"

\* C25, as stated: the text handed to the speak sequence for a routed
\* result is the result's speak text when one is given (speak is not
\* None), and the result's response text otherwise.
C25_SpeakTextWhenGiven ==
    SpeaksResult
        => pq_locals.speak_text =
              IF pq_locals.result.speak # NoText
              THEN pq_locals.result.speak
              ELSE pq_locals.result.response

\* C25, amended: the text handed to the speak sequence for a routed result
\* is the result's speak text when one is given and is not empty, and the
\* result's response text otherwise (when speak is None or the empty text).
C25_SpeakTextWhenNotEmpty ==
    SpeaksResult
        => /\ pq_locals # NoLocals
           /\ pq_locals.speak_text =
                 IF pq_locals.result.speak \notin {NoText, ""}
                 THEN pq_locals.result.speak
                 ELSE pq_locals.result.response

\* C25 witness: a result with a speak text of its own is being spoken
C25_Witness ==
    /\ SpeaksResult
    /\ pq_locals.result.speak = "speak"
    /\ pq_locals.result.response = "response"
    /\ pq_locals.speak_text = "speak"

(***************************************************************************)
(*                   Properties of the capture window                      *)
(***************************************************************************)
\* the capture loop of listen ends in this step, by timeout or by silence
WindowEnds == run_pc = "listen" /\ run_pc' \notin {"listen", "recover_sleep2"}

\* the recognizer is called in this step
RecognizerCalled == run_pc' = "listen_stt" /\ run_pc # "listen_stt"

\* the router's process is called in this step
RouterCalled == run_pc' = "pq_process" /\ run_pc # "pq_process"

\* the recognizer returns in this step, with the empty text or an exception
NoTranscription == run_pc = "listen_stt" /\ failure' = "recognition"

\* C26: after a capture window ends, the recognizer is called (once) when
\* frames were buffered, and with no frame it is not called and nothing is
\* routed; the router's process is called only when the recognizer has
\* returned a text that is not empty; an empty or failed transcription
\* ends the iteration with no routing and no speech, and the flow is back
\* at the top of the loop, where the wait for the wake word starts again.
C26_CaptureThenRecognize ==
    /\ [][WindowEnds
             => /\ audio_chunks' = 0 => run_pc' = "loop_sleep"
                /\ audio_chunks' > 0 => run_pc' = "listen_stt"]_vars
    /\ [][RecognizerCalled => run_pc = "listen" /\ audio_chunks' > 0]_vars
    /\ [][(run_pc = "listen_stt" /\ run_pc' # run_pc)
             => run_pc' \in {"pq_process", "loop_sleep"}]_vars
    /\ [][RouterCalled
             => run_pc = "listen_stt" /\ failure' # "recognition"]_vars
    /\ [][NoTranscription
             => run_pc' = "loop_sleep" /\ spoken' = <<>>]_vars
    /\ [][(run_pc = "loop_sleep" /\ run_pc' # run_pc)
             => run_pc' = "loop"]_vars
    /\ (run_pc = "loop_sleep" /\ failure = "recognition")
          ~> (run_pc = "loop")

\* C26 witness: frames were captured, the recognizer returned the empty
\* text or raised, and the iteration ends with nothing said
C26_Witness ==
    /\ run_pc = "loop_sleep"
    /\ failure = "recognition"
    /\ listen_exit = "none"
    /\ spoken = <<>>
    /\ speak_log = <<>>
    /\ _running

\* C27: when the capture window ends early on silence, the silence was
\* continuous: every frame read between the recorded start of the silence
\* and the stop was below the low threshold.
C27_SilenceContinuous == listen_exit = "break" => ~interrupted

C29_PausedThenResumed ==
    /\ [][(~Capturing /\ Capturing') => (_paused' /\ audio_chunks' = 0)]_vars
    /\ [](Capturing => _paused)
    /\ [][(Capturing /\ ~Capturing') => ~_paused']_vars

\* C29 witness: an exception raised while a frame was read has left listen,
\* and the detector is not paused
C29_Witness ==
    /\ run_pc = "recover_sleep2"
    /\ failure = "capture"
    /\ ~_paused
    /\ _arecord_proc = "alive"

\* the periodic health check returns in this step, having found the audio
\* source dead: the process had exited, or no process was attached
DeadSourceChecked ==
    /\ run_pc \in {"loop", "health_sleep"}
    /\ run_pc' = AfterHealthCheck
    /\ failure' = "audio_source"

\* C30: whenever the audio source is dead when the periodic health check
\* runs (its process has exited, or no capture process is attached), the
\* check restarts it: a capture process is running when the check returns.
C30_HealthCheckRestarts ==
    [][DeadSourceChecked => _arecord_proc' = "alive"]_vars

(***************************************************************************)
(*                    Properties of the wake detection                     *)
(***************************************************************************)
\* the loop body makes its wake check in this step: it reads from the
\* source and goes on to listen or to the sleep that ends the body
WakeChecked == run_pc = "read" /\ run_pc' \in {"listen", "loop_sleep"}

\* C31: while the loop waits for the wake word, every frame it reads is
\* passed to process_audio; a detection calls on_wake exactly once and
\* starts one capture window in the same step, on_wake is called for
\* nothing else, a capture window starts only on a detection, and no frame
\* is given to the detector until the loop is back at its wake check; a
\* paused detector reports no detection and calls no on_wake.
C31_FramesToDetector ==
    /\ [][(WakeChecked /\ _running /\ wake'.read) => wake'.passed]_vars
    /\ [][(WakeChecked /\ wake'.detected)
             => /\ wake'.on_wake = 1
                /\ run_pc' = "listen"
                /\ audio_chunks' = 0
                /\ _paused']_vars
    /\ [](wake.on_wake = (IF wake.detected THEN 1 ELSE 0))
    /\ [][(~Capturing /\ Capturing') => (WakeChecked /\ wake'.detected)]_vars
    /\ [][~WakeChecked => (wake' = wake \/ wake' = NoWake)]_vars
    /\ [][(WakeChecked /\ _paused)
             => (~wake'.detected /\ wake'.on_wake = 0)]_vars

\* C31 witness: a frame read while waiting for wake made a detection, with
\* one call of on_wake, and the capture window is open
C31_Witness ==
    /\ run_pc = "listen"
    /\ wake = [read |-> TRUE, passed |-> TRUE, on_wake |-> 1,
               detected |-> TRUE]
    /\ audio_chunks = 0
    /\ _paused

(***************************************************************************)
(*               Further properties of the router                          *)
(***************************************************************************)
\* the match the registration order and the confidences returned single
\* out: that of the earliest registered skill among those with the greatest
\* confidence, or None when every skill returned NO_MATCH
Chosen ==
    IF \E i \in Matched : ConfidenceAt(i) > NO_MATCH
    THEN matchOut[skills[EarliestBest]]
    ELSE None

\* the match tasks returned in an order other than the registration order
OutOfOrder ==
    \E k \in 1..(Len(done_order) - 1) : done_order[k] > done_order[k + 1]

\* C32: the match process selects is a function of the registration order
\* and of the matches returned alone, whatever the order in which the
\* concurrent match calls completed: two runs with the same registry and
\* the same match results select the same skill.
C32_CompletionOrderIrrelevant ==
    Routed => best_match = Chosen

\* C32 witness: two skills tie on the greatest confidence, the one
\* registered later returned first, and the earlier one is selected
C32_Witness ==
    /\ pc = "execute"
    /\ OutOfOrder
    /\ \E k, l \in 1..Len(done_order) :
          /\ k < l
          /\ done_order[k] > done_order[l]
          /\ ConfidenceAt(done_order[k]) = MaxConfidence
          /\ ConfidenceAt(done_order[l]) = MaxConfidence
          /\ best_match.skill = skills[done_order[l]]

\* C33: one call of process invokes execute at most once in total, over
\* all the registered skills, and invokes match at most once per registered
\* skill (and on no skill that is not registered).
C33_CallsAtMostOnce ==
    /\ Len(execCalls) <= 1
    /\ \A s \in SkillObjects :
          Len(matchCalls[s]) <= (IF s \in Registered THEN 1 ELSE 0)

\* C33 witness: a process call returned after one execute, with the match
\* of each of three registered skills invoked once and two of them matching
C33_Witness ==
    /\ pc = "returned"
    /\ Len(skills) > 2
    /\ Len(execCalls) = 1
    /\ \A s \in Registered : Len(matchCalls[s]) = 1
    /\ \E i, j \in Matched :
          i # j /\ ConfidenceAt(i) > NO_MATCH /\ ConfidenceAt(j) > NO_MATCH

\* the match of some skill raised in the current routing pass
MatchRaised == \E i \in 1..Len(match_task) : match_task[i].st = "raised"

\* C34: when the match of any skill raises during a routing pass, process
\* calls no skill's execute in that pass and returns no result: the
\* exception leaves process and reaches its caller.
C34_MatchFailurePropagates ==
    MatchRaised
        => /\ pc = "raised"
           /\ execCalls = <<>>
           /\ execOutcome = "none"
           /\ result = None

\* C34 witness: the match of one skill raised after another skill had
\* matched, and process raised without an execute
C34_Witness ==
    /\ pc = "raised"
    /\ execCalls = <<>>
    /\ \E i, j \in 1..Len(match_task) :
          /\ match_task[i].st = "raised"
          /\ match_task[j].st = "done"
          /\ match_task[j].out.confidence > NO_MATCH

(***************************************************************************)
(*                 Further properties of the timer skill                   *)
(***************************************************************************)
\* the responses of the cancel-all operation
CancelResponses == {"cancelled", "no_timers_to_cancel"}

\* C35: cancel-all reports a count equal to the number of timers in the
\* active map when it runs, timers that fired before not being counted; on
\* an empty map it reports that there is nothing to cancel and changes
\* neither the map, nor next_id, nor a task; it never changes next_id.
C35_CancelCountsActive ==
    [][timer_result'.response \in CancelResponses
          => /\ timer_result'.success
             /\ next_id' = next_id
             /\ timers = <<>>
                   => /\ timer_result'
                            = TimerResult(TRUE, "no_timers_to_cancel", 0)
                      /\ UNCHANGED <<timers, next_id, on_timer_complete,
                                     countdown, completed, cancelled>>
             /\ timers # <<>>
                   => /\ timer_result'
                            = TimerResult(TRUE, "cancelled", Len(timers))
                      /\ timer_result'.n
                            = Cardinality({k \in Created : Active(k)})
                      /\ cancelled' \ cancelled = {k \in Created : Active(k)}
                      /\ \A k \in cancelled' \ cancelled : completed[k] = 0]_vars

\* C35 witness: a cancel-all reported one timer, another timer having fired
\* before, and next_id stands where the two sets left it
C35_Witness ==
    /\ timer_result = TimerResult(TRUE, "cancelled", 1)
    /\ Len(countdown) = 2
    /\ next_id = 3
    /\ \E k \in Created : completed[k] = 1 /\ k \notin cancelled

\* the index of the general-question skill in the registry, 0 if absent
ClaudeAt ==
    IF \E i \in 1..Len(skills) : skills[i] = "claude"
    THEN CHOOSE i \in 1..Len(skills) : skills[i] = "claude"
    ELSE 0

\* C36: with the registry of setup, process never returns the fixed
\* fallback response for a non-empty query, the general-question skill
\* matching each of them with LOW; and that skill is executed only when no
\* skill registered before it returned LOW or higher and no skill at all
\* returned more than LOW.
C36_FallbackUnreachable ==
    /\ ClaudeAt > 0
    /\ (pc = "returned" /\ Len(query) > 0)
          => result # _fallback_response(query)
    /\ Routed => matchOut["claude"] = _match("claude", LOW, EmptyExtracted)
    /\ \A n \in 1..Len(execCalls) :
          execCalls[n].skill = "claude"
              => /\ \A i \in 1..(ClaudeAt - 1) : ConfidenceAt(i) < LOW
                 /\ \A i \in Matched : ConfidenceAt(i) <= LOW

\* C36 witness: the general-question skill was executed although the skill
\* registered after it matched with LOW as well, the skills before it
\* returning NO_MATCH
C36_Witness ==
    /\ pc = "returned"
    /\ Len(execCalls) = 1
    /\ execCalls[1].skill = "claude"
    /\ result.skill = "claude"
    /\ ClaudeAt > 1
    /\ \E i \in Matched : i > ClaudeAt /\ ConfidenceAt(i) = LOW

(***************************************************************************)
(*                     Properties of a requested stop                      *)
(***************************************************************************)
\* C37: once a stop has been requested by a signal, no new command is
\* forwarded to the router; a capture window in progress runs to its end
\* and its text is dropped; the loop is left at its next test, and shutdown
\* is then executed.
C37_StopHonoured ==
    /\ [][stop_from # "none" => ~RouterCalled]_vars
    /\ [][(stop_from # "none" /\ run_pc \in {"listen", "listen_stt"})
             => run_pc' \in {"listen", "listen_stt", "loop_sleep",
                             "recover_sleep2"}]_vars
    /\ [][(stop_from # "none" /\ run_pc = "loop" /\ run_pc' # "loop")
             => run_pc' = "shutdown"]_vars
    /\ [][(run_pc = "shutdown" /\ run_pc' # "shutdown") => ShutDown']_vars
    /\ (stop_from # "none") ~> ShutDown

(***************************************************************************)
(*                     Properties of the jokes skill                       *)
(***************************************************************************)
\* C38: over any sequence of joke requests to one JokesSkill, two
\* consecutive executions never return the same joke: the joke chosen is
\* never the last one told, so two or more consecutive requests give at
\* least two different jokes.
C38_NeverSameJokeTwice ==
    /\ [](Len(told) = 2 => told[1] # told[2])
    /\ [](told # <<>> => told[Len(told)] = JOKES[last_joke_index])
    /\ [][last_joke_index' # last_joke_index]_vars

\* C38 witness: two executions in a row told the first joke and then the
\* last one of the list
C38_Witness ==
    /\ told = <<JOKES[1], JOKES[Len(JOKES)]>>
    /\ last_joke_index = Len(JOKES)

(***************************************************************************)
(* C39: in the transcription-based WakeWordDetector, a frame passed to     *)
(* process_audio while the detector is paused never triggers a wake check, *)
(* and no wake check reads a sample that was written while paused: a check *)
(* is made only when not paused, and resume has by then emptied the        *)
(* rolling buffer and reset the count of samples since the last check.     *)
(* The buffer position always stays within the bounds of the buffer.       *)
(***************************************************************************)
C39_PausedFramesDropped ==
    /\ (checked.op = "process_audio" /\ checked.paused) =>
           (~checked.check /\ checked.on_wake = 0 /\ ~checked.detected)
    /\ checked.check => (~checked.paused /\ ~checked.heard_paused)
    /\ ~whisper_paused => (\A i \in 1.._buffer_size : ~while_paused[i])
    /\ checked.op = "resume" =>
           /\ _audio_buffer = Zeros
           /\ while_paused = Zeros
           /\ _samples_since_check = 0
           /\ _buffer_pos = 0
           /\ ~whisper_paused
    /\ _buffer_pos \in 0..(_buffer_size - 1)
    /\ Len(_audio_buffer) = _buffer_size

\* C39 witness: frames were passed while the detector was paused, resume
\* followed, and a later frame has triggered a check that transcribed the
\* buffer, with its position past the start, and detected the wake word
C39_Witness ==
    /\ paused_frames = "resumed"
    /\ checked.op = "process_audio"
    /\ checked.check /\ checked.transcribed /\ checked.detected
    /\ ~checked.heard_paused
    /\ _buffer_pos > 0

====
